---- MODULE Spec2Model ----
(***************************************************************************)
(* Verification model of the reconciliation engine used by the operator    *)
(* patterns of k8s-operator-skills: the work queue and worker pool that    *)
(* controller-runtime runs for the controllers set up in SetupWithManager, *)
(* the Reconcile passes of the MyResource, Cocktail and Database           *)
(* controllers, the status writers, and ReconcileWithRetry.                *)
(*                                                                         *)
(* The module holds four state machines over one set of variables:         *)
(*   SpecQueue   work queue + worker pool (spec section 4.1, 4.3, 5)       *)
(*   Spec        one primary object, its store record and Reconcile passes *)
(*   SpecStatus  two status writers racing on one object                   *)
(*   SpecRetry   error handling passes (ReconcileWithRetry, polling)       *)
(* Each leaves the variables of the others unchanged.                      *)
(***************************************************************************)
EXTENDS Integers, Sequences, FiniteSets, TLC

\* ---------------------------------------------------------------- bounds
\* Number of object identities in the queue model.
NumIds == 2
\* Adds counted per identity while one invocation is in flight.
MaxAdds == 2

\* Worker pool size: controller.Options{MaxConcurrentReconciles: 2}.
MaxConcurrentReconciles == 2

Ids == 1 .. NumIds
Workers == 1 .. MaxConcurrentReconciles
NoId == 0

VARIABLES
    \* --- work queue and worker pool (SpecQueue)
    queue,          \* FIFO of identities ready for get()
    dirty,          \* identities added and not yet handed out
    processing,     \* identities handed out by get() and not yet done()
    waiting,        \* identities scheduled by addAfter whose delay runs
    worker,         \* worker -> identity it is invoking Reconcile for, or NoId
    inflightAdds,   \* identity -> adds received while its invocation is in flight
    lastBurst,      \* identity -> inflightAdds answered by the latest get()
    served          \* identity -> deliveries by get() since its latest add

qvars == <<queue, dirty, processing, waiting, worker, inflightAdds, lastBurst, served>>

VARIABLES
    \* --- one primary object and the Reconcile passes for it (Spec)
    kind,           \* the controller: "MyResource", "Cocktail" or "Database"
    obj,            \* the record of the object in the backing store
    created,        \* the object has been created (history)
    childReady,     \* the owned Deployment has all its replicas ready
    inst,           \* the instance the running pass fetched and mutates
    fresh,          \* inst carries the stored resourceVersion
    pc,             \* position of the running pass
    result,         \* (ctrl.Result, error) the pass returns
    pending,        \* the identity is queued (or dirty) for a pass
    timers,         \* delayed adds that are running: "backoff", "after"
    faults,         \* failures the environment may still inject
    pass,           \* what the running / latest pass did (history)
    hist            \* what has happened to the object so far (history)

rvars == <<kind, obj, created, childReady, inst, fresh, pc, result, pending, timers,
           faults, pass, hist>>

VARIABLES
    \* --- status writers racing on one object (SpecStatus)
    sobj,           \* the stored object: resourceVersion, spec, status
    wpath,          \* writer -> the way it writes its status
    wpc,            \* writer -> position
    winst,          \* writer -> the instance it read and mutates
    wtries,         \* writer -> attempts of RetryOnConflict used up
    wconf,          \* writer -> version conflicts it ran into (history)
    extWrites       \* spec changes by the external writer so far

wvars == <<sobj, wpath, wpc, winst, wtries, wconf, extWrites>>

VARIABLES
    \* --- error handling passes and the queue's rate limiter (SpecRetry)
    rkind,          \* "retry": ReconcileWithRetry; "polling": the polling example
    annot,          \* the stored my.domain/retryCount annotation (-1: absent)
    bpc,            \* position of the pass
    bcount,         \* retryCount of the running pass
    bfailed,        \* reconcileLogic / checkExternalAPI failed in this pass
    bresult,        \* (ctrl.Result, error) the pass returns, delay in ms
    limFailures,    \* failures the queue's rate limiter counts for the identity
    streak,         \* consecutive failed passes, counted up to 2 (history)
    lastDelay,      \* delay applied after the latest failed pass, ms (history)
    prevDelay,      \* delay applied after the failed pass before it (history)
    bqueued,        \* the queue holds a delayed or rate-limited add of the identity
    bevent          \* a watch event for the identity waits for delivery

bvars == <<rkind, annot, bpc, bcount, bfailed, bresult, limFailures, streak,
           lastDelay, prevDelay, bqueued, bevent>>

VARIABLES
    \* --- SetCondition calls on one object (SpecCond)
    cconds,         \* Status.Conditions of the object
    cnow,           \* the clock: metav1.Now() of the latest call
    clast,          \* the latest call and the entry it found (history)
    cseen           \* per type, the status and reason set last (history)

cvars == <<cconds, cnow, clast, cseen>>

VARIABLES
    \* --- Database child resources (SpecChildren)
    dspec,          \* the Database spec fields the children are built from
    children,       \* the child objects in the store
    dpc,            \* position of the Database pass among its child steps
    dpasses,        \* passes started
    ddone,          \* passes that went through every child step
    dsnap,          \* the children after the first such pass (history)
    dfaults,        \* failures that may still be injected
    dpass,          \* the current pass: child steps called, the failing one,
                    \* the status on the instance and in the store, the result
    devent          \* the last event of a child and the requests it enqueued

kvars == <<dspec, children, dpc, dpasses, ddone, dsnap, dfaults, dpass, devent>>

VARIABLES
    \* --- worker pool life cycle (SpecPool)
    pshut,          \* the shutdown signal was given (context cancelled)
    pcrash,         \* the process has died of a panic that was not recovered
    wexit,          \* per worker: its loop has ended
    plast           \* the latest panic: identity, worker, live workers before and
                    \* after, what became of the identity (history)

pvars == <<pshut, pcrash, wexit, plast>>

VARIABLES
    \* --- other controllers
    foreign         \* the finalizers other controllers put on a new object

evars == <<foreign>>

VARIABLES
    \* --- watch dispatcher: secondary and owned resource events (SpecMap)
    prims,          \* the primary objects in the cache: namespace and references
    mevent,         \* the latest event: kind, namespace, name, owner (history)
    mreqs,          \* the requests the handler produced for it
    menq            \* the identities the dispatcher enqueued for it

mvars == <<prims, mevent, mreqs, menq>>

VARIABLES
    \* --- validating admission webhook (SpecHook)
    hcms,           \* the ConfigMaps in the store: <<namespace, name>>
    hreq,           \* the latest admission request (history)
    hget,           \* what Client.Get answered for it: none, ok, notfound, error
    hresp           \* the response Handle returned for it

hvars == <<hcms, hreq, hget, hresp>>

VARIABLES
    \* --- watch predicate
    updateFilter    \* the filter on update events of the primary: none, specChanged

fvars == <<updateFilter>>

vars == <<qvars, rvars, wvars, bvars, cvars, kvars, pvars, evars, mvars, hvars, fvars>>

\* What each state machine leaves alone.
notQueue == <<rvars, wvars, bvars, cvars, kvars, pvars, evars, mvars, hvars, fvars>>
notRec == <<qvars, wvars, bvars, cvars, kvars, pvars, evars, mvars, hvars, fvars>>
notStatus == <<qvars, rvars, bvars, cvars, kvars, pvars, evars, mvars, hvars, fvars>>
notRetry == <<qvars, rvars, wvars, cvars, kvars, pvars, evars, mvars, hvars, fvars>>
notCond == <<qvars, rvars, wvars, bvars, kvars, pvars, evars, mvars, hvars, fvars>>
notChildren == <<qvars, rvars, wvars, bvars, cvars, pvars, evars, mvars, hvars, fvars>>
notPool == <<qvars, rvars, wvars, bvars, cvars, kvars, evars, mvars, hvars, fvars>>
notQueuePool == <<rvars, wvars, bvars, cvars, kvars, evars, mvars, hvars, fvars>>
notMap == <<qvars, rvars, wvars, bvars, cvars, kvars, pvars, evars, hvars, fvars>>
notHook == <<qvars, rvars, wvars, bvars, cvars, kvars, pvars, evars, mvars, fvars>>

\* ===================================================================
\* Work queue (spec 4.1) and reconcile controller worker loop (4.3, 5)
\* ===================================================================

InQueue(id) == \E i \in 1 .. Len(queue) : queue[i] = id

\* Add without the in-flight check: an identity being processed is queued again.
AddWhileProcessing(id) ==
    /\ dirty' = dirty \cup {id}
    /\ queue' = IF id \in dirty THEN queue ELSE Append(queue, id)

\* add(identity): enqueue unless already queued; while the identity is being
\* processed it is only marked dirty and redelivered by done().
Add(id) ==
    /\ dirty' = dirty \cup {id}
    /\ queue' = IF id \in dirty \/ id \in processing THEN queue ELSE Append(queue, id)

\* addAfter(identity, delay): delayed delivery, one timer per identity.
AddAfter(id) == waiting' = waiting \cup {id}

\* Done that forgets the coalesced re-add.
DoneNoFlush(id) ==
    /\ processing' = processing \ {id}
    /\ queue' = queue

\* done(identity): release the in-flight mark, flush a coalesced re-add.
Done(id) ==
    /\ processing' = processing \ {id}
    /\ queue' = IF id \in dirty THEN Append(queue, id) ELSE queue

\* The results a reconcile invocation hands to the controller.
Outcomes == {"done", "requeue", "requeueAfter", "error"}

\* A watch event for the identity reaches the dispatcher, which adds it.
Dispatch(id) ==
    /\ id \in processing => inflightAdds[id] < MaxAdds
    /\ Add(id)
    /\ inflightAdds' = [inflightAdds EXCEPT ![id] = IF id \in processing THEN @ + 1 ELSE @]
    /\ served' = [served EXCEPT ![id] = 0]
    /\ UNCHANGED <<processing, waiting, worker, lastBurst>>
    /\ UNCHANGED notQueue

\* A delay set by addAfter / the rate limiter elapses: the identity is added.
TimerFire(id) ==
    /\ id \in waiting
    /\ id \in processing => inflightAdds[id] < MaxAdds
    /\ waiting' = waiting \ {id}
    /\ Add(id)
    /\ inflightAdds' = [inflightAdds EXCEPT ![id] = IF id \in processing THEN @ + 1 ELSE @]
    /\ served' = [served EXCEPT ![id] = 0]
    /\ UNCHANGED <<processing, worker, lastBurst>>
    /\ UNCHANGED notQueue

\* get(): a free worker takes the head of the queue and marks it in flight.
Get(w) ==
    /\ worker[w] = NoId
    /\ queue # <<>>
    /\ LET id == Head(queue) IN
        /\ queue' = Tail(queue)
        /\ processing' = processing \cup {id}
        /\ dirty' = dirty \ {id}
        /\ worker' = [worker EXCEPT ![w] = id]
        /\ lastBurst' = [lastBurst EXCEPT ![id] = inflightAdds[id]]
        /\ inflightAdds' = [inflightAdds EXCEPT ![id] = 0]
        /\ served' = [served EXCEPT ![id] = @ + 1]
    /\ UNCHANGED waiting
    /\ UNCHANGED notQueue

\* The invocation of worker w returns: the controller turns the result into
\* a requeue (error, requeue: rate limited; requeueAfter: delayed) and calls done().
Finish(w, outcome) ==
    /\ worker[w] # NoId
    /\ LET id == worker[w] IN
        /\ IF outcome = "done" THEN waiting' = waiting ELSE AddAfter(id)
        /\ Done(id)
        /\ worker' = [worker EXCEPT ![w] = NoId]
    /\ UNCHANGED <<dirty, inflightAdds, lastBurst, served>>
    /\ UNCHANGED notQueue

InitQueue ==
    /\ queue = <<>>
    /\ dirty = {}
    /\ processing = {}
    /\ waiting = {}
    /\ worker = [w \in Workers |-> NoId]
    /\ inflightAdds = [id \in Ids |-> 0]
    /\ lastBurst = [id \in Ids |-> 0]
    /\ served = [id \in Ids |-> 0]

QueueStep ==
    \/ \E id \in Ids : Dispatch(id)
    \/ \E id \in Ids : TimerFire(id)
    \/ \E w \in Workers : Get(w)
    \/ \E w \in Workers, o \in Outcomes : Finish(w, o)

\* ===================================================================
\* One primary object: backing store record, environment, Reconcile pass
\* ===================================================================

\* Spec changes an external writer makes to one object (generation 1 .. MaxGen).
MaxGen == 2
\* Failures the environment injects (cleanup, child writes, store calls).
MaxFaults == 2

Kinds == {"MyResource", "Cocktail", "Database"}

\* finalizerName / cocktailFinalizer / databaseFinalizer: the controller's token.
OwnFinalizer == "finalizer"
\* A token owned by another controller.
OtherFinalizer == "other/finalizer"
AnotherFinalizer == "another/finalizer"
OtherFinalizers == {OtherFinalizer, AnotherFinalizer}

\* No other controller puts a finalizer on new objects.
NoForeign == foreign = <<>>

\* Every event of the primary object reaches the queue.
NoFilter == updateFilter = "none"

\* The predicate of SetupWithCustomPredicate: create, delete and generic events
\* pass, an update passes only when the spec of the old and the new object
\* differ (the generation counts the spec changes).
Delivered(old, new) ==
    \/ updateFilter = "none"
    \/ ~old.exists
    \/ ~new.exists
    \/ old.gen # new.gen

\* getRequeueInterval, Cocktail freshness check, Database status check (seconds).
RequeueReady == 300
RequeueNotReady == 30
RequeueCocktail == 300
RequeueDbReady == 60
RequeueDbNotReady == 10

\* details: the status fields written with the phase of a successful pass
\* (Database: DeploymentName, ServiceName; Cocktail: ServingsReady, LastPrepared).
\* paused: the annotation my.domain/paused is "true".
NoObj == [exists |-> FALSE, del |-> FALSE, gen |-> 0, fins |-> <<>>, paused |-> FALSE,
          obsGen |-> 0, conds |-> <<>>, phase |-> "", details |-> FALSE]

\* ctrl.Result{} with a nil error, and the other results the passes return.
NoResult == [requeue |-> FALSE, after |-> 0, err |-> FALSE]
ErrResult == [requeue |-> FALSE, after |-> 0, err |-> TRUE]
RequeueResult == [requeue |-> TRUE, after |-> 0, err |-> FALSE]
AfterResult(d) == [requeue |-> FALSE, after |-> d, err |-> FALSE]

\* conv: the normal path was entered with a converged instance; changed: a write
\* of the pass changed the stored object.
NoPass == [path |-> "none", finWrite |-> "none", cleanup |-> "none",
           normal |-> FALSE, writes |-> 0, reason |-> "", conflict |-> FALSE,
           conv |-> FALSE, changed |-> FALSE]
\* delEvent: no deletion request of an object holding the token was filtered.
NoHist == [delEvent |-> TRUE, finPersisted |-> FALSE, normalEver |-> FALSE, cleanupEver |-> FALSE,
           cleanupFailed |-> FALSE, termTok |-> FALSE, ownRemoved |-> FALSE,
           erased |-> FALSE, okGen |-> 0]

ContainsFinalizer(o, t) == \E i \in 1 .. Len(o.fins) : o.fins[i] = t
AddFinalizer(o, t) ==
    IF ContainsFinalizer(o, t) THEN o ELSE [o EXCEPT !.fins = Append(@, t)]
RemoveFinalizerNone(o, t) == o
RemoveFinalizerAll(o, t) == [o EXCEPT !.fins = <<>>]
RemoveFinalizer(o, t) == [o EXCEPT !.fins = SelectSeq(@, LAMBDA x : x # t)]

\* SetCondition: the entry of the type is replaced by the new condition (its
\* LastTransitionTime is the time of the call), or the condition is appended.
SetConditionAppend(conds, type, status, reason, now) ==
    Append(conds, [type |-> type, status |-> status, reason |-> reason,
                   time |-> now])

SetCondition(conds, type, status, reason, now) ==
    LET new == [type |-> type, status |-> status, reason |-> reason, time |-> now]
        idx == {i \in 1 .. Len(conds) : conds[i].type = type}
    IN  IF idx = {} THEN Append(conds, new)
        ELSE [conds EXCEPT ![CHOOSE i \in idx : \A j \in idx : i <= j] = new]

IsReadyAnyType(conds) ==
    \E i \in 1 .. Len(conds) : conds[i].status = "True"

\* GetCondition / IsReady: the first condition of type Ready has status True.
IsReady(conds) ==
    LET idx == {i \in 1 .. Len(conds) : conds[i].type = "Ready"}
    IN  idx # {} /\ conds[CHOOSE i \in idx : \A j \in idx : i <= j].status = "True"

\* The status subresource: Status().Update stores the status of the instance.
WithStatus(o, i) ==
    [o EXCEPT !.obsGen = i.obsGen, !.conds = i.conds, !.phase = i.phase,
              !.details = i.details]

\* An injected failure f is taken from the budget.
Fault(f) == /\ f => faults > 0
            /\ faults' = IF f THEN faults - 1 ELSE faults

\* A write of the pass that does not fail otherwise meets a version conflict
\* when the instance is stale.
Conflict(f) == ~f /\ ~fresh

\* --------------------------------------------------------------- environment

\* A write by anyone but the running pass: the pass's instance goes stale and the
\* watch event adds the identity to the queue.
External(new) ==
    /\ obj' = new
    /\ pending' = (pending \/ Delivered(obj, new))
    /\ fresh' = (pc \in {"idle", "get"})
    /\ UNCHANGED <<kind, childReady, inst, pc, result, timers, faults, pass>>

ExtCreate ==
    /\ ~created
    /\ created' = TRUE
    /\ External([NoObj EXCEPT !.exists = TRUE, !.gen = 1, !.fins = foreign])
    /\ UNCHANGED hist
    /\ UNCHANGED notRec

ExtUpdateSpec ==
    /\ obj.exists /\ obj.gen < MaxGen
    /\ External([obj EXCEPT !.gen = @ + 1])
    /\ UNCHANGED <<created, hist>>
    /\ UNCHANGED notRec

\* A deletion request: an object without finalizers is removed at once, any other
\* gets its deletionTimestamp set.
ExtDelete ==
    /\ obj.exists /\ ~obj.del
    /\ External(IF obj.fins = <<>> THEN NoObj ELSE [obj EXCEPT !.del = TRUE])
    /\ hist' = [hist EXCEPT !.termTok = @ \/ ContainsFinalizer(obj, OwnFinalizer),
                            !.erased = (obj.fins = <<>>),
                            !.delEvent = @ /\ (ContainsFinalizer(obj, OwnFinalizer)
                                    => Delivered(obj, [obj EXCEPT !.del = TRUE]))]
    /\ UNCHANGED created
    /\ UNCHANGED notRec

\* Another controller finishes its cleanup and removes its own token.
OtherController ==
    /\ obj.exists /\ obj.del
    /\ \E t \in OtherFinalizers :
        /\ ContainsFinalizer(obj, t)
        /\ External(RemoveFinalizer(obj, t))
    /\ UNCHANGED <<created, hist>>
    /\ UNCHANGED notRec

\* Someone sets or clears the annotation my.domain/paused.
ExtPause ==
    /\ obj.exists
    /\ External([obj EXCEPT !.paused = ~@])
    /\ UNCHANGED <<created, hist>>
    /\ UNCHANGED notRec

\* The store erases a terminating record whose finalizers are empty.
StoreErase ==
    /\ obj.exists /\ obj.del /\ obj.fins = <<>>
    /\ External(NoObj)
    /\ hist' = [hist EXCEPT !.erased = TRUE]
    /\ UNCHANGED created
    /\ UNCHANGED notRec

\* The owned Deployment gains or loses ready replicas; Owns(&appsv1.Deployment{})
\* maps the event to the owner.
ChildStatus ==
    /\ kind = "Database" /\ obj.exists
    /\ childReady' = ~childReady
    /\ pending' = TRUE
    /\ UNCHANGED <<kind, obj, created, inst, fresh, pc, result, timers, faults, pass, hist>>
    /\ UNCHANGED notRec

TimerFired(t) ==
    /\ t \in timers
    /\ timers' = timers \ {t}
    /\ pending' = TRUE
    /\ UNCHANGED <<kind, obj, created, childReady, inst, fresh, pc, result, faults, pass, hist>>
    /\ UNCHANGED notRec

\* ---------------------------------------------------------------------- pass

Return(res) == result' = res /\ pc' = "return"

\* Reconcile without STEP 3: the normal path is entered without the token.
BranchSkipFinalizer(o) == IF o.del THEN "delete" ELSE "normal"

\* Reconcile that takes the deletion path for every object holding the token.
BranchDeleteWithToken(o) ==
    IF o.del \/ ContainsFinalizer(o, OwnFinalizer) THEN "delete" ELSE "addfin"

\* Reconcile that looks for its token before it looks at deletionTimestamp.
BranchFinalizerFirst(o) ==
    IF ~ContainsFinalizer(o, OwnFinalizer) THEN "addfin"
    ELSE IF o.del THEN "delete"
    ELSE "normal"

\* STEP 2 / STEP 3 of Reconcile: deletion first, then the finalizer, then the
\* normal path.
Branch(o) ==
    IF o.del THEN "delete"
    ELSE IF ~ContainsFinalizer(o, OwnFinalizer) THEN "addfin"
    ELSE "normal"

\* ReconcileWithSkip: SKIP 1 paused, SKIP 2 up to date and Ready, SKIP 3
\* deletion, else the normal path; the checks run in this order.
BranchSkip(o) ==
    IF o.paused THEN "paused"
    ELSE IF o.obsGen = o.gen /\ IsReady(o.conds) THEN "uptodate"
    ELSE IF o.del THEN "delete"
    ELSE "normal"

\* A worker takes the identity from the queue.
PassStart ==
    /\ pc = "idle" /\ pending
    /\ pending' = FALSE
    /\ pc' = "get"
    /\ pass' = NoPass
    /\ UNCHANGED <<kind, obj, created, childReady, inst, fresh, result, timers, faults, hist>>
    /\ UNCHANGED notRec

\* Reconcile that returns the NotFound error of r.Get like any other error.
FetchNotFoundError(f) ==
    /\ pc = "get"
    /\ Fault(f)
    /\ IF f THEN
            /\ Return(ErrResult)
            /\ pass' = [pass EXCEPT !.path = "fetcherr"]
            /\ UNCHANGED <<inst, fresh>>
       ELSE IF ~obj.exists THEN
            /\ Return(ErrResult)
            /\ pass' = [pass EXCEPT !.path = "notfound"]
            /\ UNCHANGED <<inst, fresh>>
       ELSE
            /\ inst' = obj
            /\ fresh' = TRUE
            /\ pc' = Branch(obj)
            /\ pass' = [pass EXCEPT !.path = Branch(obj)]
            /\ UNCHANGED result
    /\ UNCHANGED <<kind, obj, created, childReady, pending, timers, hist>>
    /\ UNCHANGED notRec

\* ReconcileWithSkip up to its branch: r.Get, then the three skips. A paused
\* object ends the pass with the empty result, an up-to-date one with
\* RequeueAfter five minutes.
FetchSkip(f) ==
    /\ pc = "get"
    /\ Fault(f)
    /\ IF f THEN
            /\ Return(ErrResult)
            /\ pass' = [pass EXCEPT !.path = "fetcherr"]
            /\ UNCHANGED <<inst, fresh>>
       ELSE IF ~obj.exists THEN
            /\ Return(NoResult)
            /\ pass' = [pass EXCEPT !.path = "notfound"]
            /\ UNCHANGED <<inst, fresh>>
       ELSE
            /\ inst' = obj
            /\ fresh' = TRUE
            /\ pass' = [pass EXCEPT !.path = BranchSkip(obj)]
            /\ CASE BranchSkip(obj) = "paused" -> Return(NoResult)
                 [] BranchSkip(obj) = "uptodate" -> Return(AfterResult(RequeueReady))
                 [] OTHER -> pc' = BranchSkip(obj) /\ UNCHANGED result
    /\ UNCHANGED <<kind, obj, created, childReady, pending, timers, hist>>
    /\ UNCHANGED notRec

\* STEP 1: r.Get. NotFound is success without requeue; any other error is returned.
Fetch(f) ==
    /\ pc = "get"
    /\ Fault(f)
    /\ IF f THEN
            /\ Return(ErrResult)
            /\ pass' = [pass EXCEPT !.path = "fetcherr"]
            /\ UNCHANGED <<inst, fresh>>
       ELSE IF ~obj.exists THEN
            /\ Return(NoResult)
            /\ pass' = [pass EXCEPT !.path = "notfound"]
            /\ UNCHANGED <<inst, fresh>>
       ELSE
            /\ inst' = obj
            /\ fresh' = TRUE
            /\ pc' = Branch(obj)
            /\ pass' = [pass EXCEPT !.path = Branch(obj)]
            /\ UNCHANGED result
    /\ UNCHANGED <<kind, obj, created, childReady, pending, timers, hist>>
    /\ UNCHANGED notRec

\* reconcileDelete that drops the error of the cleanup and removes the token.
ReconcileDeleteIgnoreError(f) ==
    /\ pc = "delete"
    /\ Fault(f)
    /\ f => kind # "Database" /\ ContainsFinalizer(inst, OwnFinalizer)
    /\ IF ~ContainsFinalizer(inst, OwnFinalizer) THEN
            /\ Return(NoResult)
            /\ UNCHANGED <<inst, pass, hist>>
       ELSE
            /\ inst' = RemoveFinalizer(inst, OwnFinalizer)
            /\ pc' = "delwrite"
            /\ pass' = [pass EXCEPT !.cleanup = IF f THEN "failed" ELSE "ok"]
            /\ hist' = [hist EXCEPT !.cleanupEver = @ \/ ~f, !.cleanupFailed = @ \/ f]
            /\ UNCHANGED result
    /\ UNCHANGED <<kind, obj, created, childReady, fresh, pending, timers>>
    /\ UNCHANGED notRec

\* reconcileDelete up to the write: cleanup runs only while the token is present;
\* a failed cleanup returns the error and leaves the finalizers alone. The
\* Database controller has nothing to clean up.
ReconcileDelete(f) ==
    /\ pc = "delete"
    /\ Fault(f)
    /\ f => kind # "Database" /\ ContainsFinalizer(inst, OwnFinalizer)
    /\ IF ~ContainsFinalizer(inst, OwnFinalizer) THEN
            /\ Return(NoResult)
            /\ UNCHANGED <<inst, pass, hist>>
       ELSE IF f THEN
            /\ Return(ErrResult)
            /\ pass' = [pass EXCEPT !.cleanup = "failed"]
            /\ hist' = [hist EXCEPT !.cleanupFailed = TRUE]
            /\ UNCHANGED inst
       ELSE
            /\ inst' = RemoveFinalizer(inst, OwnFinalizer)
            /\ pc' = "delwrite"
            /\ pass' = [pass EXCEPT !.cleanup = "ok"]
            /\ hist' = [hist EXCEPT !.cleanupEver = TRUE]
            /\ UNCHANGED result
    /\ UNCHANGED <<kind, obj, created, childReady, fresh, pending, timers>>
    /\ UNCHANGED notRec

\* reconcileDelete that asks for a requeue after it removed the token.
RemoveFinalizerWriteRequeue(f) ==
    /\ pc = "delwrite"
    /\ Fault(f)
    /\ IF f \/ ~fresh THEN
            /\ Return(ErrResult)
            /\ pass' = [pass EXCEPT !.conflict = Conflict(f)]
            /\ UNCHANGED <<obj, pending, hist>>
       ELSE
            /\ obj' = [obj EXCEPT !.fins = inst.fins]
            /\ pending' = (pending \/ Delivered(obj, [obj EXCEPT !.fins = inst.fins]))
            /\ pass' = [pass EXCEPT !.writes = @ + 1]
            /\ hist' = [hist EXCEPT !.ownRemoved = TRUE]
            /\ Return(RequeueResult)
    /\ UNCHANGED <<kind, created, childReady, inst, fresh, timers>>
    /\ UNCHANGED notRec

\* reconcileDelete: r.Update of the instance without the token.
RemoveFinalizerWrite(f) ==
    /\ pc = "delwrite"
    /\ Fault(f)
    /\ IF f \/ ~fresh THEN
            /\ Return(ErrResult)
            /\ pass' = [pass EXCEPT !.conflict = Conflict(f)]
            /\ UNCHANGED <<obj, pending, hist>>
       ELSE
            /\ obj' = [obj EXCEPT !.fins = inst.fins]
            /\ pending' = (pending \/ Delivered(obj, [obj EXCEPT !.fins = inst.fins]))
            /\ pass' = [pass EXCEPT !.writes = @ + 1]
            /\ hist' = [hist EXCEPT !.ownRemoved = TRUE]
            /\ Return(NoResult)
    /\ UNCHANGED <<kind, created, childReady, inst, fresh, timers>>
    /\ UNCHANGED notRec

\* STEP 3: AddFinalizer and r.Update; the pass ends with Requeue, or the error.
AddFinalizerWrite(f) ==
    /\ pc = "addfin"
    /\ Fault(f)
    /\ IF f \/ ~fresh THEN
            /\ Return(ErrResult)
            /\ pass' = [pass EXCEPT !.finWrite = "failed", !.conflict = Conflict(f)]
            /\ UNCHANGED <<obj, inst, pending, hist>>
       ELSE
            /\ inst' = AddFinalizer(inst, OwnFinalizer)
            /\ obj' = [obj EXCEPT !.fins = AddFinalizer(inst, OwnFinalizer).fins]
            /\ pending' = (pending \/ Delivered(obj, AddFinalizer(obj, OwnFinalizer)))
            /\ pass' = [pass EXCEPT !.finWrite = "ok", !.writes = @ + 1]
            /\ hist' = [hist EXCEPT !.finPersisted = TRUE]
            /\ Return(RequeueResult)
    /\ UNCHANGED <<kind, created, childReady, fresh, timers>>
    /\ UNCHANGED notRec

\* Status().Update of instance i: stored when the version matches and the call
\* does not fail; the instance is then the stored object. The pass goes on either
\* way when the caller only logs the error.
StatusStored(f) == ~f /\ fresh

StatusUpdate(i, f) ==
    IF StatusStored(f) THEN
        /\ obj' = WithStatus(obj, i)
        /\ inst' = WithStatus(obj, i)
        /\ pending' = \/ pending
                       \/ /\ WithStatus(obj, i) # obj \/ kind = "MyResource"
                          /\ Delivered(obj, WithStatus(obj, i))
    ELSE
        /\ inst' = i
        /\ UNCHANGED <<obj, pending>>

Wrote(f) == IF StatusStored(f) THEN 1 ELSE 0

\* The stored object after Status().Update of instance i differs from the one
\* before it. MyResource.updateStatus stamps Status.LastUpdated with the time of
\* the call, so its stored write always does.
Changes(i, f) == StatusStored(f) /\ (WithStatus(obj, i) # obj \/ kind = "MyResource")

\* The fetched instance of a live object needs nothing done: token present,
\* observedGeneration = generation, Ready True, and the Database's Deployment
\* has its replicas ready with phase Ready stored.
ConvergedInst(i) ==
    /\ ~i.del /\ ContainsFinalizer(i, OwnFinalizer)
    /\ i.obsGen = i.gen
    /\ IsReady(i.conds)
    /\ kind = "Database" => (childReady /\ i.phase = "Ready")

\* STEP 4, first store or child call of the normal path.
\*   MyResource: ObservedGeneration, then reconcileLogic (CreateOrPatch may fail).
\*   Cocktail:   ObservedGeneration, then prepareCocktail (phase Preparing is
\*               written, errors ignored; it always returns nil).
\*   Database:   phase Reconciling is written, errors logged.
BeginNormal(f) ==
    /\ pc = "normal"
    /\ Fault(f)
    /\ hist' = [hist EXCEPT !.normalEver = TRUE]
    /\ CASE kind = "MyResource" ->
              /\ inst' = [inst EXCEPT !.obsGen = inst.gen]
              /\ pc' = IF f THEN "errstatus" ELSE "status"
              /\ pass' = [pass EXCEPT !.normal = TRUE, !.conv = ConvergedInst(inst),
                                      !.reason = IF f THEN "ReconcileError" ELSE ""]
              /\ UNCHANGED <<obj, pending>>
         [] kind = "Cocktail" ->
              /\ StatusUpdate([inst EXCEPT !.obsGen = inst.gen, !.phase = "Preparing"], f)
              /\ pass' = [pass EXCEPT !.normal = TRUE, !.writes = @ + Wrote(f),
                                      !.conv = ConvergedInst(inst),
                                      !.changed = Changes([inst EXCEPT !.obsGen = inst.gen,
                                                                       !.phase = "Preparing"], f),
                                      !.conflict = @ \/ Conflict(f)]
              /\ pc' = "status"
         [] kind = "Database" ->
              /\ StatusUpdate([inst EXCEPT !.phase = "Reconciling"], f)
              /\ pass' = [pass EXCEPT !.normal = TRUE, !.writes = @ + Wrote(f),
                                      !.conv = ConvergedInst(inst),
                                      !.changed = Changes([inst EXCEPT !.phase = "Reconciling"], f),
                                      !.conflict = @ \/ Conflict(f)]
              /\ pc' = "children"
    /\ UNCHANGED <<kind, created, childReady, fresh, result, timers>>
    /\ UNCHANGED notRec

\* Database: reconcilePVC, reconcileSecret, reconcileConfigMap,
\* reconcileDeployment, reconcileService in this order; the first failing step
\* ends the pass through setErrorStatus with its reason.
ChildReasons == <<"PVCCreateFailed", "SecretCreateFailed", "ConfigMapCreateFailed",
                  "DeploymentCreateFailed", "ServiceCreateFailed">>

ReconcileChildren(failAt) ==
    /\ pc = "children"
    /\ Fault(failAt > 0)
    /\ pc' = IF failAt > 0 THEN "errstatus" ELSE "status"
    /\ pass' = [pass EXCEPT !.reason = IF failAt > 0 THEN ChildReasons[failAt] ELSE ""]
    /\ UNCHANGED <<kind, obj, created, childReady, inst, fresh, result, pending, timers, hist>>
    /\ UNCHANGED notRec

\* getRequeueInterval: 5 minutes when Ready, 30 seconds otherwise.
getRequeueInterval(i) == IF IsReady(i.conds) THEN RequeueReady ELSE RequeueNotReady

\* The instance with the status that the successful end of the normal path sets.
\*   MyResource: updateStatus(ConditionTrue, "Ready", ...).
\*   Cocktail:   prepareCocktail's phase Ready, then updateStatus("Ready",
\*               "Prepared", ...): the condition status is the second string.
\*   Database:   updateStatus: ObservedGeneration, phase and Ready from the
\*               Deployment's ready replicas.
SuccessStatus(i) ==
    CASE kind = "MyResource" ->
            [i EXCEPT !.conds = SetCondition(@, "Ready", "True", "Ready", 0)]
      [] kind = "Cocktail" ->
            [i EXCEPT !.phase = "Ready", !.details = TRUE,
                      !.conds = SetCondition(@, "Ready", "Prepared",
                                             "Cocktail is ready to serve", 0)]
      [] kind = "Database" ->
            IF childReady
            THEN [i EXCEPT !.obsGen = i.gen, !.phase = "Ready", !.details = TRUE,
                           !.conds = SetCondition(@, "Ready", "True", "Ready", 0)]
            ELSE [i EXCEPT !.obsGen = i.gen, !.phase = "Progressing", !.details = TRUE,
                           !.conds = SetCondition(@, "Ready", "False", "Progressing", 0)]

\* A normal path that ends with the empty result.
SuccessResultDone(i, f) == NoResult

\* What the normal path returns after its status write.
\*   MyResource, Cocktail: the error of the write is only logged.
\*   Database: the error of the write is returned.
SuccessResult(i, f) ==
    CASE kind = "MyResource" -> AfterResult(getRequeueInterval(i))
      [] kind = "Cocktail" -> AfterResult(RequeueCocktail)
      [] kind = "Database" ->
            IF ~StatusStored(f) THEN ErrResult
            ELSE AfterResult(IF IsReady(i.conds) THEN RequeueDbReady ELSE RequeueDbNotReady)

\* STEP 5 and 6: the status write of the successful normal path and the result.
UpdateStatus(f) ==
    /\ pc = "status"
    /\ Fault(f)
    /\ StatusUpdate(SuccessStatus(inst), f)
    /\ pass' = [pass EXCEPT !.writes = @ + Wrote(f),
                            !.changed = @ \/ Changes(SuccessStatus(inst), f),
                                      !.conflict = @ \/ Conflict(f)]
    /\ Return(SuccessResult(SuccessStatus(inst), f))
    /\ hist' = [hist EXCEPT !.okGen =
                    IF SuccessResult(SuccessStatus(inst), f).err THEN @ ELSE inst.gen]
    /\ UNCHANGED <<kind, created, childReady, fresh, timers>>
    /\ UNCHANGED notRec

\* The failing end of the normal path: the condition Ready=False is written (the
\* error of the write is dropped) and the error is returned.
\*   MyResource: updateStatus(ConditionFalse, "ReconcileError", ...).
\*   Database:   setErrorStatus: phase Failed and the failing step's reason.
ErrorStatus(f) ==
    /\ pc = "errstatus"
    /\ Fault(f)
    /\ StatusUpdate([inst EXCEPT !.phase = IF kind = "Database" THEN "Failed" ELSE @,
                                 !.conds = SetCondition(@, "Ready", "False", pass.reason, 0)], f)
    /\ pass' = [pass EXCEPT !.writes = @ + Wrote(f),
                            !.changed = @ \/ StatusStored(f),
                                      !.conflict = @ \/ Conflict(f)]
    /\ Return(ErrResult)
    /\ UNCHANGED <<kind, created, childReady, fresh, timers, hist>>
    /\ UNCHANGED notRec

HandleResultDropError ==
    /\ pc = "return"
    /\ timers' = IF result.err THEN timers
                 ELSE IF result.after > 0 THEN timers \cup {"after"}
                 ELSE IF result.requeue THEN timers \cup {"backoff"}
                 ELSE timers
    /\ pc' = "idle"
    /\ inst' = NoObj
    /\ fresh' = TRUE
    /\ UNCHANGED <<kind, obj, created, childReady, result, pending, faults, pass, hist>>
    /\ UNCHANGED notRec

\* The controller turns the returned result into its queue operation: an error or
\* Requeue goes to the rate limiter, RequeueAfter to a delayed add, the empty
\* result to nothing; then done() releases the identity.
HandleResult ==
    /\ pc = "return"
    /\ timers' = IF result.err THEN timers \cup {"backoff"}
                 ELSE IF result.after > 0 THEN timers \cup {"after"}
                 ELSE IF result.requeue THEN timers \cup {"backoff"}
                 ELSE timers
    /\ pc' = "idle"
    /\ inst' = NoObj
    /\ fresh' = TRUE
    /\ UNCHANGED <<kind, obj, created, childReady, result, pending, faults, pass, hist>>
    /\ UNCHANGED notRec

InitRec ==
    /\ kind \in Kinds
    /\ obj = NoObj
    /\ created = FALSE
    /\ childReady = FALSE
    /\ inst = NoObj
    /\ fresh = TRUE
    /\ pc = "idle"
    /\ result = NoResult
    /\ pending = FALSE
    /\ timers = {}
    /\ faults = MaxFaults
    /\ pass = NoPass
    /\ hist = NoHist

\* The variables of the object model at rest, for the other state machines.
RecIdle ==
    /\ kind = "MyResource"
    /\ obj = NoObj
    /\ created = FALSE
    /\ childReady = FALSE
    /\ inst = NoObj
    /\ fresh = TRUE
    /\ pc = "idle"
    /\ result = NoResult
    /\ pending = FALSE
    /\ timers = {}
    /\ faults = 0
    /\ pass = NoPass
    /\ hist = NoHist

\* The steps common to the three controllers.
CommonStep ==
    \/ ExtCreate
    \/ ExtUpdateSpec
    \/ ExtDelete
    \/ OtherController
    \/ StoreErase
    \/ \E t \in {"backoff", "after"} : TimerFired(t)
    \/ PassStart
    \/ \E f \in BOOLEAN : Fetch(f)
    \/ \E f \in BOOLEAN : ReconcileDelete(f)
    \/ \E f \in BOOLEAN : RemoveFinalizerWrite(f)
    \/ \E f \in BOOLEAN : AddFinalizerWrite(f)
    \/ \E f \in BOOLEAN : BeginNormal(f)
    \/ \E f \in BOOLEAN : UpdateStatus(f)
    \/ \E f \in BOOLEAN : ErrorStatus(f)
    \/ HandleResult

\* The steps of a controller whose Reconcile is ReconcileWithSkip: it never
\* adds the token itself.
SkipStep ==
    \/ ExtCreate
    \/ ExtUpdateSpec
    \/ ExtDelete
    \/ ExtPause
    \/ OtherController
    \/ StoreErase
    \/ \E t \in {"backoff", "after"} : TimerFired(t)
    \/ PassStart
    \/ \E f \in BOOLEAN : FetchSkip(f)
    \/ \E f \in BOOLEAN : ReconcileDelete(f)
    \/ \E f \in BOOLEAN : RemoveFinalizerWrite(f)
    \/ \E f \in BOOLEAN : BeginNormal(f)
    \/ \E f \in BOOLEAN : UpdateStatus(f)
    \/ \E f \in BOOLEAN : ErrorStatus(f)
    \/ HandleResult

RecStep ==
    \/ CommonStep
    \/ ChildStatus
    \/ \E k \in 0 .. 5 : ReconcileChildren(k)

\* ===================================================================
\* Status writers: updateStatus, UpdateWithRetry, UpdateStatusWithPatch
\* ===================================================================
\* Two writers set one condition each on the same stored object while an
\* external writer changes its spec. The store compares the resourceVersion of
\* an Update / Status().Update with the stored one; a merge patch built with
\* client.MergeFrom carries no resourceVersion.

\* Spec changes the external writer makes.
MaxExt == 4
\* retry.DefaultRetry: attempts of RetryOnConflict.
RetrySteps == 5

Writers == {1, 2}
\* "update":  MyResourceReconciler.updateStatus (the error is logged)
\* "requeue": DatabaseReconciler.updateStatus (the error ends the pass)
\* "retry":   UpdateWithRetry
\* "patch":   UpdateStatusWithPatch
Paths == {"update", "requeue", "retry", "patch"}

\* The condition a writer sets.
Mutation(w) == IF w = 1 THEN "Ready" ELSE "Degraded"

NoInst == [rv |-> 0, gen |-> 0, conds |-> <<>>, phase |-> "", obsGen |-> 0]
NewStored == [rv |-> 1, gen |-> 1, conds |-> <<>>, phase |-> "", obsGen |-> 0]

HasCondition(conds, type) ==
    \E i \in 1 .. Len(conds) : conds[i].type = type /\ conds[i].status = "True"

\* The stored object after a write: the version moves when the object changed.
Stored(new) ==
    IF [new EXCEPT !.rv = sobj.rv] = sobj THEN sobj
    ELSE [new EXCEPT !.rv = sobj.rv + 1]

\* A JSON merge patch from base to modified holds the status fields that
\* differ, the conditions list as a whole; the server lays it over the stored
\* object whatever its version.
MergePatch(stored, base, modified) ==
    [stored EXCEPT
        !.conds = IF modified.conds # base.conds THEN modified.conds ELSE @,
        !.phase = IF modified.phase # base.phase THEN modified.phase ELSE @,
        !.obsGen = IF modified.obsGen # base.obsGen THEN modified.obsGen ELSE @]

\* An external writer changes the spec: generation and version move.
ExtSpecChange ==
    /\ extWrites < MaxExt
    /\ extWrites' = extWrites + 1
    /\ sobj' = [sobj EXCEPT !.gen = @ + 1, !.rv = @ + 1]
    /\ UNCHANGED <<wpath, wpc, winst, wtries, wconf>>
    /\ UNCHANGED notStatus

\* r.Get: the writer's instance is the stored object.
WriterGet(w) ==
    /\ wpc[w] = "get"
    /\ winst' = [winst EXCEPT ![w] = sobj]
    /\ wpc' = [wpc EXCEPT ![w] = "write"]
    /\ UNCHANGED <<sobj, wpath, wtries, wconf, extWrites>>
    /\ UNCHANGED notStatus

\* updateStatus: SetCondition on the instance, then Status().Update. On a
\* version conflict MyResourceReconciler.updateStatus logs the error and is
\* done; DatabaseReconciler.updateStatus returns it, Reconcile returns it and
\* the queue runs a new pass, which reads the object again.
WriterStatusUpdate(w) ==
    /\ wpc[w] = "write"
    /\ wpath[w] \in {"update", "requeue"}
    /\ LET i == [winst[w] EXCEPT
                    !.conds = SetCondition(@, Mutation(w), "True", "Ready", 0)]
       IN  IF i.rv = sobj.rv THEN
               /\ sobj' = Stored([sobj EXCEPT !.conds = i.conds])
               /\ wpc' = [wpc EXCEPT ![w] = "done"]
               /\ UNCHANGED wconf
           ELSE
               /\ wconf' = [wconf EXCEPT ![w] = @ + 1]
               /\ wpc' = [wpc EXCEPT ![w] =
                             IF wpath[w] = "update" THEN "done" ELSE "get"]
               /\ UNCHANGED sobj
    /\ UNCHANGED <<wpath, winst, wtries, extWrites>>
    /\ UNCHANGED notStatus

\* UpdateWithRetry that retries on every conflict, without a limit.
WriterUpdateNoLimit(w) ==
    /\ wpc[w] = "write"
    /\ wpath[w] = "retry"
    /\ LET i == [winst[w] EXCEPT
                    !.conds = SetCondition(@, Mutation(w), "True", "Ready", 0)]
       IN  IF i.rv = sobj.rv THEN
               /\ sobj' = Stored(i)
               /\ wpc' = [wpc EXCEPT ![w] = "done"]
               /\ UNCHANGED <<wconf, wtries>>
           ELSE
               /\ wconf' = [wconf EXCEPT ![w] = @ + 1]
               /\ wtries' = [wtries EXCEPT ![w] = @ + 1]
               /\ wpc' = [wpc EXCEPT ![w] = "get"]
               /\ UNCHANGED sobj
    /\ UNCHANGED <<wpath, winst, extWrites>>
    /\ UNCHANGED notStatus

\* UpdateWithRetry: the function of RetryOnConflict got the latest object and
\* mutated it; Update stores it when the version matches, a conflict runs the
\* function again until the attempts are used up.
WriterUpdate(w) ==
    /\ wpc[w] = "write"
    /\ wpath[w] = "retry"
    /\ LET i == [winst[w] EXCEPT
                    !.conds = SetCondition(@, Mutation(w), "True", "Ready", 0)]
       IN  IF i.rv = sobj.rv THEN
               /\ sobj' = Stored(i)
               /\ wpc' = [wpc EXCEPT ![w] = "done"]
               /\ UNCHANGED <<wconf, wtries>>
           ELSE
               /\ wconf' = [wconf EXCEPT ![w] = @ + 1]
               /\ wtries' = [wtries EXCEPT ![w] = @ + 1]
               /\ wpc' = [wpc EXCEPT ![w] =
                             IF wtries[w] + 1 >= RetrySteps THEN "failed" ELSE "get"]
               /\ UNCHANGED sobj
    /\ UNCHANGED <<wpath, winst, extWrites>>
    /\ UNCHANGED notStatus

\* UpdateStatusWithPatch: MergeFrom(DeepCopy), phase, observedGeneration and the
\* condition are set on the instance, Status().Patch sends the difference.
WriterPatch(w) ==
    /\ wpc[w] = "write"
    /\ wpath[w] = "patch"
    /\ LET base == winst[w]
           modified == [base EXCEPT
                           !.phase = "Ready",
                           !.obsGen = base.gen,
                           !.conds = SetCondition(@, Mutation(w), "True", "Ready", 0)]
       IN  sobj' = Stored(MergePatch(sobj, base, modified))
    /\ wpc' = [wpc EXCEPT ![w] = "done"]
    /\ UNCHANGED <<wpath, winst, wtries, wconf, extWrites>>
    /\ UNCHANGED notStatus

StatusIdle ==
    /\ sobj = NewStored
    /\ wpath = [w \in Writers |-> "update"]
    /\ wpc = [w \in Writers |-> "done"]
    /\ winst = [w \in Writers |-> NoInst]
    /\ wtries = [w \in Writers |-> 0]
    /\ wconf = [w \in Writers |-> 0]
    /\ extWrites = 0

InitStatus ==
    /\ sobj = NewStored
    /\ wpath \in [Writers -> Paths]
    /\ wpc = [w \in Writers |-> "get"]
    /\ winst = [w \in Writers |-> NoInst]
    /\ wtries = [w \in Writers |-> 0]
    /\ wconf = [w \in Writers |-> 0]
    /\ extWrites = 0

StatusStep ==
    \/ ExtSpecChange
    \/ \E w \in Writers : WriterGet(w)
    \/ \E w \in Writers : WriterStatusUpdate(w)
    \/ \E w \in Writers : WriterUpdate(w)
    \/ \E w \in Writers : WriterPatch(w)

\* ===================================================================
\* Error handling: ReconcileWithRetry, the polling example, the rate limiter
\* ===================================================================
\* One identity whose passes fail or succeed as the environment decides. Delays
\* are in milliseconds.

\* The retry count a failing pass may start from.
MaxCount == 12
\* Failures the queue's rate limiter counts.
MaxLimiter == 3

\* "retryCount > 10": the pass gives up and returns the error.
MaxRetries == 10
\* 5*time.Minute, the cap of the backoff and the delay after a success.
FiveMinutes == 300000
\* time.Minute * 1, the polling interval of the polling example.
PollInterval == 60000
\* workqueue rate limiter of SetupWithRateLimiter: 5ms base, 1000s ceiling.
RateLimiterBase == 5
RateLimiterMax == 1000000

RetryKinds == {"retry", "polling"}

\* The annotation my.domain/retryCount is absent (no count of the model is -1).
NoAnnotation == -1
\* Counts another writer may have put into the annotation: Sscanf reads any
\* decimal integer, negative ones included; the values around the overflow of
\* the shift and of the product.
ExtCounts == {-5, -2, 0, 9, 10, 33, 34, 54, 55, 64}

Min(a, b) == IF a < b THEN a ELSE b

\* backoff := time.Duration(1<<uint(retryCount)) * time.Second, capped at five
\* minutes. The shift is a 64-bit int (0 from 64 bits on, and for a negative
\* count), the product a 64-bit count of nanoseconds (10^9 = 2^9 * 1953125)
\* that wraps: 0 from 2^55 on, and from 2^34 on either negative (-1 here, never
\* capped) or above the cap.
Backoff(rc) ==
    IF rc < 0 \/ rc >= 55 THEN 0
    ELSE IF rc >= 34 THEN
        LET k == 55 - rc
        IN  IF 1953125 % (2 ^ k) >= 2 ^ (k - 1) THEN -1 ELSE FiveMinutes
    ELSE IF rc >= 9 THEN FiveMinutes
    ELSE Min(1000 * (2 ^ rc), FiveMinutes)

\* The rate limiter's delay for an identity that failed n times in a row.
LimiterDelay(n) == Min(RateLimiterBase * (2 ^ n), RateLimiterMax)

\* The queue delivers the identity, for a watch event or for an add that came
\* due; r.Get and the retryCount annotation (absent: the count stays 0).
RetryStart ==
    /\ bpc = "idle"
    /\ bqueued \/ bevent
    /\ bevent' = FALSE
    /\ bqueued' = (bqueued /\ bevent)
    /\ bcount' = IF rkind = "retry" /\ annot # NoAnnotation THEN annot ELSE 0
    /\ bfailed' = FALSE
    /\ bpc' = "logic"
    /\ UNCHANGED <<rkind, annot, bresult, limFailures, streak, lastDelay, prevDelay>>
    /\ UNCHANGED notRetry

\* ReconcileWithRetry: reconcileLogic returns nil (ok) or an error.
ReconcileLogic(ok) ==
    /\ bpc = "logic"
    /\ rkind = "retry"
    /\ ~ok => (bcount < MaxCount \/ bcount \in ExtCounts) /\ limFailures < MaxLimiter
    /\ bfailed' = ~ok
    /\ bpc' = IF ok THEN "reset" ELSE "count"
    /\ UNCHANGED <<rkind, annot, bcount, bresult, limFailures, streak, lastDelay,
                   prevDelay, bqueued, bevent>>
    /\ UNCHANGED notRetry

CountWriteGiveUp(stored) ==
    /\ bpc = "count"
    /\ bcount' = bcount + 1
    /\ annot' = IF stored THEN bcount + 1 ELSE annot
    /\ bevent' = (bevent \/ stored)
    /\ bresult' = IF bcount + 1 > MaxRetries THEN NoResult
                  ELSE AfterResult(Backoff(bcount))
    /\ bpc' = "return"
    /\ UNCHANGED <<rkind, bfailed, limFailures, streak, lastDelay, prevDelay, bqueued>>
    /\ UNCHANGED notRetry

\* The failure branch: backoff from the count read, the count is incremented
\* and written with r.Update (stored is FALSE when the write fails, which is
\* only logged); above MaxRetries the error is returned, else RequeueAfter.
\* A stored write is an update of the object, which the watch reports.
CountWrite(stored) ==
    /\ bpc = "count"
    /\ bcount' = bcount + 1
    /\ annot' = IF stored THEN bcount + 1 ELSE annot
    /\ bevent' = (bevent \/ stored)
    /\ bresult' = IF bcount + 1 > MaxRetries THEN ErrResult
                  ELSE AfterResult(Backoff(bcount))
    /\ bpc' = "return"
    /\ UNCHANGED <<rkind, bfailed, limFailures, streak, lastDelay, prevDelay, bqueued>>
    /\ UNCHANGED notRetry

\* The success branch: a count above 0 is reset with r.Update, whose error is
\* dropped; the pass asks to be run again in five minutes.
ResetWrite(stored) ==
    /\ bpc = "reset"
    /\ bcount = 0 => stored
    /\ annot' = IF bcount > 0 /\ stored THEN 0 ELSE annot
    /\ bevent' = (bevent \/ (bcount > 0 /\ stored))
    /\ bresult' = AfterResult(FiveMinutes)
    /\ bpc' = "return"
    /\ UNCHANGED <<rkind, bcount, bfailed, limFailures, streak, lastDelay, prevDelay,
                   bqueued>>
    /\ UNCHANGED notRetry

\* The polling example: an error of checkExternalAPI is answered with
\* RequeueAfter five minutes and a nil error, a success with one minute.
PollingPass(ok) ==
    /\ bpc = "logic"
    /\ rkind = "polling"
    /\ bfailed' = ~ok
    /\ bresult' = AfterResult(IF ok THEN PollInterval ELSE FiveMinutes)
    /\ bpc' = "return"
    /\ UNCHANGED <<rkind, annot, bcount, limFailures, streak, lastDelay, prevDelay,
                   bqueued, bevent>>
    /\ UNCHANGED notRetry

\* The delay the queue applies for a result: an error or Requeue goes through
\* the rate limiter, RequeueAfter above 0 is taken as it is.
AppliedDelay(res) ==
    IF res.err THEN LimiterDelay(limFailures)
    ELSE IF res.after > 0 THEN res.after
    ELSE IF res.requeue THEN LimiterDelay(limFailures)
    ELSE 0

\* The controller's handling of what the pass returned: an error or Requeue
\* counts as a failure of the identity for the rate limiter, anything else
\* makes the limiter forget the identity. The identity is added again for an
\* error, for Requeue and for RequeueAfter above 0.
QueueResult ==
    /\ bpc = "return"
    /\ bqueued' = (bqueued \/ bresult.err \/ bresult.after > 0 \/ bresult.requeue)
    /\ limFailures' = IF bresult.err \/ (bresult.after <= 0 /\ bresult.requeue)
                      THEN limFailures + 1 ELSE 0
    /\ IF bfailed THEN
           /\ streak' = Min(streak + 1, 2)
           /\ prevDelay' = lastDelay
           /\ lastDelay' = AppliedDelay(bresult)
       ELSE
           /\ streak' = 0
           /\ prevDelay' = 0
           /\ lastDelay' = 0
    /\ bpc' = "idle"
    /\ UNCHANGED <<rkind, annot, bcount, bfailed, bresult, bevent>>
    /\ UNCHANGED notRetry

RetryIdle ==
    /\ rkind = "retry"
    /\ annot = NoAnnotation
    /\ bpc = "off"
    /\ bcount = 0
    /\ bfailed = FALSE
    /\ bresult = NoResult
    /\ limFailures = 0
    /\ streak = 0
    /\ lastDelay = 0
    /\ prevDelay = 0
    /\ bqueued = FALSE
    /\ bevent = FALSE

InitRetry ==
    /\ rkind \in RetryKinds
    /\ annot = NoAnnotation
    /\ bpc = "idle"
    /\ bcount = 0
    /\ bfailed = FALSE
    /\ bresult = NoResult
    /\ limFailures = 0
    /\ streak = 0
    /\ lastDelay = 0
    /\ prevDelay = 0
    /\ bqueued = FALSE
    /\ bevent = TRUE

RetryStep ==
    \/ RetryStart
    \/ \E ok \in BOOLEAN : ReconcileLogic(ok)
    \/ \E stored \in BOOLEAN : CountWrite(stored)
    \/ \E stored \in BOOLEAN : ResetWrite(stored)
    \/ \E ok \in BOOLEAN : PollingPass(ok)
    \/ QueueResult

\* ===================================================================
\* Conditions: SetCondition, GetCondition, IsReady
\* ===================================================================
\* A sequence of SetCondition calls on one object, each at a later time than
\* the one before.

\* Calls of SetCondition.
MaxCalls == 3

CondTypes == {"Ready", "Degraded"}
CondStatuses == {"True", "False", "Unknown"}
CondReasons == {"ReasonA", "ReasonB"}

NoCall == [type |-> "", status |-> "", reason |-> "", had |-> FALSE,
           oldStatus |-> "", oldTime |-> 0, oldConds |-> <<>>]

\* A type no call has set.
NeverSet == [status |-> "", reason |-> ""]

\* GetCondition: the first entry of the type; NoCondition stands for nil.
NoCondition == [type |-> "", status |-> "", reason |-> "", time |-> 0]
GetCondition(conds, type) ==
    LET idx == {i \in 1 .. Len(conds) : conds[i].type = type}
    IN  IF idx = {} THEN NoCondition
        ELSE conds[CHOOSE i \in idx : \A j \in idx : i <= j]

\* r.SetCondition(type, status, reason, message) at the next clock value.
SetConditionCall(type, status, reason) ==
    /\ cnow < MaxCalls
    /\ cnow' = cnow + 1
    /\ cconds' = SetCondition(cconds, type, status, reason, cnow + 1)
    /\ clast' = [type |-> type, status |-> status, reason |-> reason,
                 had |-> GetCondition(cconds, type) # NoCondition,
                 oldStatus |-> GetCondition(cconds, type).status,
                 oldTime |-> GetCondition(cconds, type).time,
                 oldConds |-> cconds]
    /\ cseen' = [cseen EXCEPT ![type] = [status |-> status, reason |-> reason]]
    /\ UNCHANGED notCond

InitCond ==
    /\ cconds = <<>>
    /\ cnow = 0
    /\ clast = NoCall
    /\ cseen = [t \in CondTypes |-> NeverSet]

CondStep ==
    \E type \in CondTypes, status \in CondStatuses, reason \in CondReasons :
        SetConditionCall(type, status, reason)

\* ===================================================================
\* Database: child resources of one Database object
\* ===================================================================
\* The child steps of DatabaseReconciler.Reconcile for a live object that holds
\* the finalizer. Every child is written with controllerutil.CreateOrPatch.

\* Reconcile calls for the object.
MaxPasses == 3

DbName == "db"
DbNamespace == "ns1"
DefaultSecretName == "db-password"
Passwords == {"pw1", "pw2"}
UserNames == {"alice", "bob"}

NoData == <<>>

\* The object of the kind and name in the store, as a set with at most one
\* element.
Lookup(kind_, name) == {c \in children : c.kind = kind_ /\ c.name = name}

\* CreateOrPatch: Get by key, run the mutate function on what was found (or on
\* the empty object), then Create, or Patch when the result differs.
\* Every mutate function of the Database reconciler ends with
\* SetControllerReference(database, child), and every child is built with
\* Namespace: database.Namespace.
CreateOrPatch(kind_, name, data) ==
    (children \ Lookup(kind_, name))
        \cup {[kind |-> kind_, name |-> name, data |-> data,
                ns |-> DbNamespace, owner |-> DbName]}

Found(kind_, name) ==
    IF Lookup(kind_, name) = {} THEN NoData
    ELSE (CHOOSE c \in Lookup(kind_, name) : TRUE).data

\* reconcileSecret without the nil check: a password is generated on every call.
SecretDataRegenerate(found, sp, pw) == <<pw, sp.userName>>

\* reconcileSecret, mutate function: password and username are set only when
\* the Secret has no data; pw is what generateRandomPassword returns.
SecretData(found, sp, pw) ==
    IF found = NoData THEN <<pw, sp.userName>> ELSE found

SecretName(sp) ==
    IF sp.passwordSecretName = "" THEN DefaultSecretName ELSE sp.passwordSecretName

\* The child steps in the order Reconcile calls them, and the kinds they write.
ChildSteps == <<"pvc", "secret", "configmap", "deployment", "service">>
ChildKinds == <<"PersistentVolumeClaim", "Secret", "ConfigMap", "Deployment", "Service">>
StepIndex(step) == CHOOSE i \in 1 .. Len(ChildSteps) : ChildSteps[i] = step

\* SetupWithManager: Owns(&appsv1.Deployment{}), Owns(&corev1.Service{}).
OwnedKinds == {"Deployment", "Service"}

NoChildEvent == [kind |-> "", name |-> "", enq |-> {}]

\* The requests the watches of SetupWithManager make of an event of a child:
\* the controller owner for the owned kinds, what findDatabasesForConfigMap
\* returns for a ConfigMap (nil when List fails, else the Databases of the
\* namespace whose spec.configMapName is its name), nothing for other kinds.
WatchRequests(c, listed) ==
    IF c.kind \in OwnedKinds THEN {c.owner}
    ELSE IF c.kind = "ConfigMap"
         THEN IF listed /\ c.ns = DbNamespace /\ dspec.configMapName = c.name
              THEN {DbName} ELSE {}
         ELSE {}

NoStatus == [phase |-> "", ready |-> "", reason |-> ""]
NoDbPass == [log |-> <<>>, failedAt |-> 0, status |-> NoStatus, stored |-> NoStatus,
             result |-> NoResult]

\* setErrorStatus: phase Failed and Ready=False with the step's reason on the
\* instance, Status().Update (st: it is stored; its error is discarded), and
\* the error with the empty result.
setErrorStatus(p, step, st) ==
    LET failed == [phase |-> "Failed", ready |-> "False",
                   reason |-> ChildReasons[StepIndex(step)]]
    IN  [p EXCEPT !.log = Append(@, step), !.failedAt = StepIndex(step),
                  !.status = failed,
                  !.stored = IF st THEN failed ELSE @,
                  !.result = ErrResult]

\* The end of a pass whose child steps all succeeded: updateStatus (the
\* Deployment of this machine has no ready replicas) and RequeueAfter, or the
\* error of the status write.
PassComplete(p, step, st) ==
    LET progressing == [phase |-> "Progressing", ready |-> "False",
                        reason |-> "Progressing"]
    IN  [p EXCEPT !.log = Append(@, step),
                  !.status = progressing,
                  !.stored = IF st THEN progressing ELSE @,
                  !.result = IF st THEN AfterResult(RequeueDbNotReady) ELSE ErrResult]

\* A child step that goes on with the next step after an error.
ChildStepContinue(step, next, new, f) ==
    /\ dpc = step
    /\ f => dfaults > 0
    /\ dfaults' = IF f THEN dfaults - 1 ELSE dfaults
    /\ \E st \in BOOLEAN :
        IF f THEN
            /\ dpc' = next
            /\ dpass' = setErrorStatus(dpass, step, st)
            /\ UNCHANGED <<children, ddone, dsnap>>
        ELSE
            /\ children' = new
            /\ dpc' = next
            /\ ddone' = IF next = "idle" THEN ddone + 1 ELSE ddone
            /\ dsnap' = IF next = "idle" /\ ddone = 0 THEN new ELSE dsnap
            /\ dpass' = IF next = "idle" THEN PassComplete(dpass, step, st)
                         ELSE [dpass EXCEPT !.log = Append(@, step)]
            /\ (next # "idle") => st
    /\ UNCHANGED <<dspec, dpasses, devent>>
    /\ UNCHANGED notChildren

\* A child step: an error ends the pass (setErrorStatus), else the child is
\* written and the pass moves on; after the Service the pass is complete.
ChildStep(step, next, new, f) ==
    /\ dpc = step
    /\ f => dfaults > 0
    /\ dfaults' = IF f THEN dfaults - 1 ELSE dfaults
    /\ \E st \in BOOLEAN :
        IF f THEN
            /\ dpc' = "idle"
            /\ dpass' = setErrorStatus(dpass, step, st)
            /\ UNCHANGED <<children, ddone, dsnap>>
        ELSE
            /\ children' = new
            /\ dpc' = next
            /\ ddone' = IF next = "idle" THEN ddone + 1 ELSE ddone
            /\ dsnap' = IF next = "idle" /\ ddone = 0 THEN new ELSE dsnap
            /\ dpass' = IF next = "idle" THEN PassComplete(dpass, step, st)
                         ELSE [dpass EXCEPT !.log = Append(@, step)]
            /\ (next # "idle") => st
    /\ UNCHANGED <<dspec, dpasses, devent>>
    /\ UNCHANGED notChildren

\* Reconcile is called for the live object with the finalizer: the fetched
\* status gets phase Reconciling, written with Status().Update (st: stored;
\* the error is logged).
DatabaseReconcile ==
    /\ dpc = "idle" /\ dpasses < MaxPasses
    /\ dpasses' = dpasses + 1
    /\ dpc' = "pvc"
    /\ \E st \in BOOLEAN :
        dpass' = [NoDbPass EXCEPT
                    !.status = [dpass.stored EXCEPT !.phase = "Reconciling"],
                    !.stored = IF st THEN [dpass.stored EXCEPT !.phase = "Reconciling"]
                               ELSE dpass.stored]
    /\ UNCHANGED <<dspec, children, ddone, dsnap, dfaults, devent>>
    /\ UNCHANGED notChildren

reconcilePVC(f) ==
    ChildStep("pvc", "secret",
              CreateOrPatch("PersistentVolumeClaim", DbName, <<"storage">>), f)

reconcileSecret(f, pw) ==
    ChildStep("secret", "configmap",
              CreateOrPatch("Secret", SecretName(dspec),
                            SecretData(Found("Secret", SecretName(dspec)), dspec, pw)), f)

reconcileConfigMap(f) ==
    /\ f => dspec.configMapName # ""
    /\ ChildStep("configmap", "deployment",
                 IF dspec.configMapName = "" THEN children
                 ELSE CreateOrPatch("ConfigMap", dspec.configMapName,
                                    <<dspec.userName>>), f)

reconcileDeployment(f) ==
    ChildStep("deployment", "service",
              CreateOrPatch("Deployment", DbName,
                            <<dspec.userName, dspec.passwordSecretName,
                              dspec.configMapName>>), f)

reconcileService(f) ==
    ChildStep("service", "idle",
              CreateOrPatch("Service", DbName, <<"ClusterIP">>), f)

\* Another actor changes a child in the store (its status, a label); the
\* event goes through the watches of the controller.
ChildEvent(c, listed) ==
    /\ dpc # "off"
    /\ c \in children
    /\ devent' = [kind |-> c.kind, name |-> c.name, enq |-> WatchRequests(c, listed)]
    /\ UNCHANGED <<dspec, children, dpc, dpasses, ddone, dsnap, dfaults, dpass>>
    /\ UNCHANGED notChildren

ChildIdle ==
    /\ dspec = [userName |-> "alice", passwordSecretName |-> "", configMapName |-> ""]
    /\ children = {}
    /\ dpc = "off"
    /\ dpasses = 0
    /\ ddone = 0
    /\ dsnap = {}
    /\ dfaults = 0
    /\ dpass = NoDbPass
    /\ devent = NoChildEvent

InitChildren ==
    /\ dspec \in [userName : UserNames, passwordSecretName : {"", "db-secret"},
                  configMapName : {"", "db-config"}]
    /\ children = {}
    /\ dpc = "idle"
    /\ dpasses = 0
    /\ ddone = 0
    /\ dsnap = {}
    /\ dfaults = MaxFaults
    /\ dpass = NoDbPass
    /\ devent = NoChildEvent

ChildrenStep ==
    \/ DatabaseReconcile
    \/ \E f \in BOOLEAN :
        \/ reconcilePVC(f)
        \/ \E pw \in Passwords : reconcileSecret(f, pw)
        \/ reconcileConfigMap(f)
        \/ reconcileDeployment(f)
        \/ reconcileService(f)
        \/ \E c \in children : ChildEvent(c, f)

\* ===================================================================
\* Worker pool: panics and shutdown
\* ===================================================================
\* The workers of one controller around the work queue above.

\* controller.Options of SetupWithManagerWithOptions leaves RecoverPanic unset
\* (the line is commented out); controller-runtime v0.17.0 then re-raises a
\* panic of Reconcile after logging it.
RecoverPanic == FALSE

NoPanic == [id |-> NoId, w |-> 0, live |-> 0, liveAfter |-> 0,
            released |-> FALSE, requeued |-> FALSE]

Live(w) == ~pcrash /\ ~wexit[w]
LiveWorkers == {w \in Workers : Live(w)}

\* A watch event or an elapsed delay while the process runs; dispatch stops
\* with the shutdown signal.
PoolDispatch(id) == ~pshut /\ ~pcrash /\ Dispatch(id)
PoolTimerFire(id) == ~pshut /\ ~pcrash /\ TimerFire(id)

\* get() with no shutdown check: items are handed out after the signal.
PoolGetAfterShutdown(w) == Live(w) /\ Get(w)

\* A live worker blocked in get() is handed an item; after the shutdown signal
\* get() hands out nothing.
PoolGet(w) == ~pshut /\ Live(w) /\ Get(w)

\* The invocation of a live worker returns.
PoolFinish(w, outcome) == Live(w) /\ Finish(w, outcome)

\* The invocation of worker w panics. With RecoverPanic the panic becomes the
\* error of the attempt; without it the panic is raised again and ends the
\* process with all its workers, the identity still marked in flight.
Panic(w) ==
    /\ Live(w)
    /\ worker[w] # NoId
    /\ IF RecoverPanic THEN
            /\ AddAfter(worker[w])
            /\ Done(worker[w])
            /\ worker' = [worker EXCEPT ![w] = NoId]
            /\ UNCHANGED pcrash
       ELSE
            /\ pcrash' = TRUE
            /\ UNCHANGED <<queue, processing, waiting, worker>>
    /\ plast' = [id |-> worker[w], w |-> w,
                 live |-> Cardinality(LiveWorkers),
                 liveAfter |-> IF pcrash' THEN 0 ELSE Cardinality(LiveWorkers),
                 released |-> worker[w] \notin processing',
                 requeued |-> worker[w] \in waiting']
    /\ UNCHANGED <<dirty, inflightAdds, lastBurst, served, pshut, wexit>>
    /\ UNCHANGED notQueuePool

\* The process-wide shutdown signal: the context of mgr.Start is cancelled.
Shutdown ==
    /\ ~pshut /\ ~pcrash
    /\ pshut' = TRUE
    /\ UNCHANGED <<pcrash, wexit, plast>>
    /\ UNCHANGED notPool

\* After the signal a worker that is not in an invocation leaves its loop: its
\* blocked get() is released and reports the shutdown.
WorkerExit(w) ==
    /\ pshut /\ Live(w)
    /\ worker[w] = NoId
    /\ wexit' = [wexit EXCEPT ![w] = TRUE]
    /\ UNCHANGED <<pshut, pcrash, plast>>
    /\ UNCHANGED notPool

PoolIdle ==
    /\ pshut = FALSE
    /\ pcrash = FALSE
    /\ wexit = [w \in Workers |-> FALSE]
    /\ plast = NoPanic

PoolStep ==
    \/ \E id \in Ids : PoolDispatch(id)
    \/ \E id \in Ids : PoolTimerFire(id)
    \/ \E w \in Workers : PoolGet(w)
    \/ \E w \in Workers, o \in Outcomes : PoolFinish(w, o)
    \/ \E w \in Workers : Panic(w)
    \/ Shutdown
    \/ \E w \in Workers : WorkerExit(w)

\* ===================================================================
\* Watch dispatcher: mapping of secondary and owned resource events
\* ===================================================================

\* Primary objects in the cache.
NumPrimaries == 2

PrimaryIds == 1 .. NumPrimaries
Namespaces == {"ns1", "ns2"}
ConfigMapNames == {"", "cfg"}
SecretNames == {"", "sec"}

NoEvent == [kind |-> "", ns |-> "", name |-> "", owner |-> 0, listed |-> TRUE]

\* r.List(ctx, &list, client.InNamespace(ns)): the items of the namespace.
ListInNamespace(ns) ==
    SelectSeq([i \in PrimaryIds |-> i], LAMBDA i : prims[i].ns = ns)

\* findObjectsForConfigMap, findObjectsForSecret, findDatabasesForConfigMap,
\* findConfigMaps: nil when List fails, else one request per item of the
\* object's namespace whose spec field equals the object's name.
findObjects(field, ns, name, listed) ==
    IF ~listed THEN <<>>
    ELSE SelectSeq(ListInNamespace(ns), LAMBDA i : prims[i][field] = name)

Range(s) == {s[i] : i \in 1 .. Len(s)}

\* EnqueueRequestsFromMapFunc: an event on a ConfigMap or Secret runs the map
\* function and every request it returns is added to the queue.
SecondaryEvent(kind_, field, ns, name, listed) ==
    /\ mevent' = [kind |-> kind_, ns |-> ns, name |-> name, owner |-> 0,
                  listed |-> listed]
    /\ mreqs' = findObjects(field, ns, name, listed)
    /\ menq' = Range(findObjects(field, ns, name, listed))
    /\ UNCHANGED prims
    /\ UNCHANGED notMap

ConfigMapEvent(ns, name, listed) ==
    SecondaryEvent("ConfigMap", "configMapName", ns, name, listed)

SecretEvent(ns, name, listed) ==
    SecondaryEvent("Secret", "secretName", ns, name, listed)

\* Owns(&appsv1.Deployment{}), Owns(&corev1.Service{}): the event of a child
\* enqueues the controller owner named by its owner reference.
OwnedEvent(kind_, owner) ==
    /\ mevent' = [kind |-> kind_, ns |-> prims[owner].ns, name |-> "child",
                  owner |-> owner, listed |-> TRUE]
    /\ mreqs' = <<owner>>
    /\ menq' = {owner}
    /\ UNCHANGED prims
    /\ UNCHANGED notMap

MapIdle ==
    /\ prims = [i \in PrimaryIds |-> [ns |-> "ns1", configMapName |-> "", secretName |-> ""]]
    /\ mevent = NoEvent
    /\ mreqs = <<>>
    /\ menq = {}

InitMap ==
    /\ prims \in [PrimaryIds -> [ns : Namespaces, configMapName : ConfigMapNames,
                                 secretName : SecretNames]]
    /\ mevent = NoEvent
    /\ mreqs = <<>>
    /\ menq = {}

MapStep ==
    \/ \E ns \in Namespaces, name \in ConfigMapNames \ {""}, listed \in BOOLEAN :
        ConfigMapEvent(ns, name, listed)
    \/ \E ns \in Namespaces, name \in SecretNames \ {""}, listed \in BOOLEAN :
        SecretEvent(ns, name, listed)
    \/ \E k \in OwnedKinds, owner \in PrimaryIds : OwnedEvent(k, owner)

\* ===================================================================
\* Validating admission webhook: MyResourceValidator
\* ===================================================================

\* spec.replicas is an int32; the values around the two limits.
ReplicaValues == {-1, 0, 3, 100, 101}
\* spec.image enters the checks by its length only (== "" and len).
ImageLens == {0, 1, 511, 512}
ParamKeys == {"", "k"}
ParamValues == {"", "v"}
\* spec.parameters: a map, possibly empty.
ParamMaps == UNION {[K -> ParamValues] : K \in SUBSET ParamKeys}

MsgReplicas == "replicas must be between 0 and 100"
MsgImage == "image must be specified"
MsgInvalidImage == "invalid image reference"
MsgConfigMap == "configmap not found"
MsgParamKey == "parameter key cannot be empty"
MsgParamValue == "parameter value cannot be empty"
MsgDecode == "decode error"

Requests == [decodes : BOOLEAN, replicas : ReplicaValues, imageLen : ImageLens,
             ns : Namespaces, configMapName : ConfigMapNames, params : ParamMaps]

NoRequest == [decodes |-> FALSE, replicas |-> 0, imageLen |-> 0, ns |-> "",
              configMapName |-> "", params |-> <<>>]
NoResponse == [allowed |-> FALSE, code |-> 0, message |-> ""]

\* admission.Allowed, admission.Denied, admission.Errored.
Allowed == [allowed |-> TRUE, code |-> 200, message |-> ""]
Denied(msg) == [allowed |-> FALSE, code |-> 403, message |-> msg]
Errored(code) == [allowed |-> FALSE, code |-> code, message |-> MsgDecode]

isValidImageReferenceInclusive(len) == len > 0 /\ len <= 512
isValidImageReference(len) == len > 0 /\ len < 512

\* The entries of spec.parameters on which the range loop returns an error.
BadParams(params) == {k \in DOMAIN params : k = "" \/ params[k] = ""}

\* Client.Get of the named ConfigMap in the object's namespace: not called
\* when no ConfigMap is named or an earlier check failed; f is a failure of
\* the read for another reason than absence.
ClientGet(i, f) ==
    IF \/ i.replicas < 0 \/ i.replicas > 100
       \/ i.imageLen = 0 \/ ~isValidImageReference(i.imageLen)
       \/ i.configMapName = ""
    THEN "none"
    ELSE IF <<i.ns, i.configMapName>> \notin hcms THEN "notfound"
    ELSE IF f THEN "error" ELSE "ok"

\* validateMyResource: the message of the first check that fails, "" for
\* nil. first is the offending parameter the range loop visits first (the
\* iteration order of a Go map is not fixed), <<>> when there is none.
validateMyResource(i, got, first) ==
    IF i.replicas < 0 \/ i.replicas > 100 THEN MsgReplicas
    ELSE IF i.imageLen = 0 THEN MsgImage
    ELSE IF ~isValidImageReference(i.imageLen) THEN MsgInvalidImage
    ELSE IF i.configMapName # "" /\ got # "ok" THEN MsgConfigMap
    ELSE IF first # <<>>
         THEN IF first[1] = "" THEN MsgParamKey ELSE MsgParamValue
    ELSE ""

Handle(req, got, first) ==
    IF ~req.decodes THEN Errored(400)
    ELSE IF validateMyResource(req, got, first) # ""
         THEN Denied(validateMyResource(req, got, first))
    ELSE Allowed

\* The validator keeps nothing between two requests, so a behaviour handles
\* one request against the store it started with.
HandleRequest(req, f, first) ==
    /\ hresp = NoResponse
    /\ first \in (IF BadParams(req.params) = {} THEN {<<>>}
                  ELSE {<<k>> : k \in BadParams(req.params)})
    /\ hreq' = req
    /\ hget' = IF req.decodes THEN ClientGet(req, f) ELSE "none"
    /\ hresp' = Handle(req, IF req.decodes THEN ClientGet(req, f) ELSE "none", first)
    /\ UNCHANGED hcms
    /\ UNCHANGED notHook

HookIdle ==
    /\ hcms = {}
    /\ hreq = NoRequest
    /\ hget = "none"
    /\ hresp = NoResponse

InitHook ==
    /\ hcms \in SUBSET (Namespaces \X (ConfigMapNames \ {""}))
    /\ hreq = NoRequest
    /\ hget = "none"
    /\ hresp = NoResponse

HookStep ==
    \E req \in Requests, f \in BOOLEAN, first \in {<<>>} \cup {<<k>> : k \in ParamKeys} :
        HandleRequest(req, f, first)

\* ===================================================================
\* Specifications
\* ===================================================================

Init == InitRec /\ InitQueue /\ StatusIdle /\ RetryIdle /\ InitCond /\ ChildIdle /\ PoolIdle /\ MapIdle /\ HookIdle /\ NoFilter
        /\ foreign \in {<<>>, <<OtherFinalizer>>}
Next == RecStep
Spec == Init /\ [][Next]_vars

\* The controllers that have a cleanup function (MyResource, Cocktail), with the
\* steps that run whenever they can: the worker's pass, the queue's timers, the
\* store erasing a record whose finalizers are empty, and the other controller
\* removing its token from a terminating object.
PassStep ==
    \/ PassStart
    \/ \E f \in BOOLEAN : Fetch(f)
    \/ \E f \in BOOLEAN : ReconcileDelete(f)
    \/ \E f \in BOOLEAN : RemoveFinalizerWrite(f)
    \/ \E f \in BOOLEAN : AddFinalizerWrite(f)
    \/ \E f \in BOOLEAN : BeginNormal(f)
    \/ \E f \in BOOLEAN : UpdateStatus(f)
    \/ \E f \in BOOLEAN : ErrorStatus(f)
    \/ HandleResult

FairInit == Init /\ kind \in {"MyResource", "Cocktail"}

FairSpec ==
    /\ FairInit /\ [][CommonStep]_vars
    /\ WF_vars(PassStep)
    /\ WF_vars(\E t \in {"backoff", "after"} : TimerFired(t))
    /\ WF_vars(StoreErase)
    /\ WF_vars(OtherController)

NextQueue == QueueStep

QueueInit == InitQueue /\ RecIdle /\ StatusIdle /\ RetryIdle /\ InitCond /\ ChildIdle /\ PoolIdle /\ NoForeign /\ MapIdle /\ HookIdle /\ NoFilter
SpecQueue == QueueInit /\ [][NextQueue]_vars

\* The status writers alone, and the error handling passes alone.
NextStatus == StatusStep
StatusInit == InitStatus /\ InitQueue /\ RecIdle /\ RetryIdle /\ InitCond /\ ChildIdle /\ PoolIdle /\ NoForeign /\ MapIdle /\ HookIdle /\ NoFilter
SpecStatus == StatusInit /\ [][NextStatus]_vars

NextRetry == RetryStep
RetryInit == InitRetry /\ InitQueue /\ RecIdle /\ StatusIdle /\ InitCond /\ ChildIdle /\ PoolIdle /\ NoForeign /\ MapIdle /\ HookIdle /\ NoFilter
SpecRetry == RetryInit /\ [][NextRetry]_vars

\* SetCondition calls alone.
NextCond == CondStep
CondInit == InitCond /\ InitQueue /\ RecIdle /\ StatusIdle /\ RetryIdle /\ ChildIdle /\ PoolIdle /\ NoForeign /\ MapIdle /\ HookIdle /\ NoFilter
SpecCond == CondInit /\ [][NextCond]_vars

\* The child steps of the Database passes alone.
NextChildren == ChildrenStep
ChildInit == InitChildren /\ InitQueue /\ RecIdle /\ StatusIdle /\ RetryIdle /\ InitCond /\ PoolIdle /\ NoForeign /\ MapIdle /\ HookIdle /\ NoFilter
SpecChildren == ChildInit /\ [][NextChildren]_vars

\* The worker pool with panics and shutdown; in FairPool an invocation returns
\* and a released worker leaves its loop.
NextPool == PoolStep
PoolInit == InitQueue /\ PoolIdle /\ RecIdle /\ StatusIdle /\ RetryIdle /\ InitCond /\ ChildIdle /\ NoForeign /\ MapIdle /\ HookIdle /\ NoFilter
SpecPool == PoolInit /\ [][NextPool]_vars
FairPool ==
    /\ PoolInit /\ [][NextPool]_vars
    /\ \A w \in Workers : WF_vars(PoolFinish(w, "done")) /\ WF_vars(WorkerExit(w))

\* The passes over a MyResource or a Database on which two other controllers
\* hold finalizers.
FinalInit ==
    /\ InitRec /\ kind \in {"MyResource", "Database"}
    /\ InitQueue /\ StatusIdle /\ RetryIdle /\ InitCond /\ ChildIdle /\ PoolIdle /\ MapIdle /\ HookIdle /\ NoFilter
    /\ foreign = <<OtherFinalizer, AnotherFinalizer>>
SpecFinal == FinalInit /\ [][Next]_vars

\* The event handlers of the watches alone.
NextMap == MapStep
MapInit == InitMap /\ InitQueue /\ RecIdle /\ StatusIdle /\ RetryIdle /\ InitCond /\ ChildIdle /\ PoolIdle /\ NoForeign /\ HookIdle /\ NoFilter
SpecMap == MapInit /\ [][NextMap]_vars

\* The passes over a MyResource or a Database, the child steps of the Database
\* included; a pass that can take a step takes it and a timer that is set fires.
ConvInit ==
    /\ InitRec /\ kind \in {"MyResource", "Database"}
    /\ InitQueue /\ StatusIdle /\ RetryIdle /\ InitCond /\ ChildIdle /\ PoolIdle /\ MapIdle /\ HookIdle /\ NoFilter
    /\ foreign = <<OtherFinalizer>>
FairConv ==
    /\ ConvInit /\ [][RecStep]_vars
    /\ WF_vars(PassStep \/ \E k \in 0 .. 5 : ReconcileChildren(k))
    /\ WF_vars(\E t \in {"backoff", "after"} : TimerFired(t))

\* The validating webhook alone.
NextHook == HookStep
HookInit == InitQueue /\ RecIdle /\ StatusIdle /\ RetryIdle /\ InitCond /\ ChildIdle /\ PoolIdle /\ MapIdle /\ NoForeign /\ InitHook /\ NoFilter
SpecHook == HookInit /\ [][NextHook]_vars

\* ReconcileWithRetry on an object whose retryCount annotation was set by
\* another writer before the first pass.
ExtRetryInit ==
    /\ rkind \in RetryKinds /\ annot \in ExtCounts \cup {NoAnnotation}
    /\ bpc = "idle" /\ bcount = 0 /\ bfailed = FALSE /\ bresult = NoResult
    /\ limFailures = 0 /\ streak = 0 /\ lastDelay = 0 /\ prevDelay = 0
    /\ bqueued = FALSE /\ bevent = TRUE
    /\ InitQueue /\ RecIdle /\ StatusIdle /\ InitCond /\ ChildIdle /\ PoolIdle /\ MapIdle /\ NoForeign /\ HookIdle /\ NoFilter
SpecRetryExt == ExtRetryInit /\ [][NextRetry]_vars

\* ReconcileWithSkip over a MyResource that was created holding the
\* controller's token, alone or after the token of another controller.
NextSkip == SkipStep
SkipInit ==
    /\ InitRec /\ kind = "MyResource"
    /\ InitQueue /\ StatusIdle /\ RetryIdle /\ InitCond /\ ChildIdle /\ PoolIdle /\ MapIdle /\ HookIdle /\ NoFilter
    /\ foreign \in {<<OwnFinalizer>>, <<OtherFinalizer, OwnFinalizer>>}
SpecSkip == SkipInit /\ [][NextSkip]_vars

\* Reconcile of a MyResource behind the predicate of SetupWithCustomPredicate.
NextPred == CommonStep
PredInit ==
    /\ InitRec /\ kind = "MyResource"
    /\ InitQueue /\ StatusIdle /\ RetryIdle /\ InitCond /\ ChildIdle /\ PoolIdle /\ MapIdle /\ HookIdle
    /\ foreign \in {<<>>, <<OtherFinalizer>>}
    /\ updateFilter = "specChanged"
SpecPred == PredInit /\ [][NextPred]_vars

\* The queue delivers what it holds and the worker runs its pass to the end.
FairRetry == RetryInit /\ [][NextRetry]_vars /\ WF_vars(RetryStep)

\* C1: for every identity, at most one reconcile-or-cleanup invocation is in
\* progress in any reachable state, whatever the interleaving of adds with
\* the workers' get and done calls.
C1_AtMostOneInvocation ==
    \A id \in Ids : Cardinality({w \in Workers : worker[w] = id}) <= 1

\* Two workers are busy at once while an add for an in-flight identity waits.
C1_Witness ==
    /\ \A w \in Workers : worker[w] # NoId
    /\ \E id \in Ids : id \in processing /\ id \in dirty

\* C2: N >= 1 adds of an identity while its invocation is in flight lead, after
\* done, to exactly one further delivery by get: the identity is queued once
\* when done releases it (not zero), and without a further add it is never
\* delivered a second time (not N).
C2_ExactlyOneFollowUp ==
    \A id \in Ids :
        /\ served[id] <= 1
        /\ Cardinality({i \in 1 .. Len(queue) : queue[i] = id}) <= 1
        /\ (inflightAdds[id] >= 1 /\ id \notin processing) => InQueue(id)

\* The follow-up invocation for a burst of two or more in-flight adds has been
\* delivered once and has finished, and nothing more is scheduled for it.
C2_Witness ==
    \E id \in Ids :
        /\ lastBurst[id] >= 2
        /\ served[id] = 1
        /\ id \notin processing /\ id \notin dirty /\ id \notin waiting
        /\ ~InQueue(id)

\* C3: for a freshly created live object no normal reconcile logic runs, and no
\* status is stored, before a write adding the controller's token has been
\* persisted; the pass that writes the token runs no normal logic, and when that
\* write fails the pass returns the error.
C3_FinalizerBeforeNormal ==
    /\ hist.normalEver => hist.finPersisted
    /\ pass.normal => pass.finWrite = "none"
    /\ (pc = "return" /\ pass.finWrite = "failed") => (result = ErrResult /\ pass.writes = 0)
    /\ (obj.exists /\ ~hist.finPersisted) =>
            (obj.obsGen = 0 /\ obj.conds = <<>> /\ obj.phase = "")

\* Normal logic runs for an object whose token this controller persisted before.
C3_Witness == hist.finPersisted /\ pass.normal /\ pc = "status"

\* C4: an object that is terminating with the controller's token is never erased
\* before a cleanup invocation succeeded and the controller's write removed the
\* token; a deletion request for an object without finalizers removes it at once
\* (it never becomes a stored terminating object).
C4_ErasedOnlyAfterCleanup ==
    /\ [](hist.erased /\ hist.termTok => hist.cleanupEver /\ hist.ownRemoved)
    /\ [](obj.exists /\ obj.del /\ ContainsFinalizer(obj, OwnFinalizer) => ~hist.erased)
    /\ [][(obj.exists /\ ~obj.del /\ obj.fins = <<>> /\ obj'.del) => ~obj'.exists]_vars
    /\ [][(obj.exists /\ ~obj.del /\ obj.fins = <<>> /\ obj' = NoObj) => hist'.erased]_vars

\* An object that was terminating with the token has been erased.
C4_Witness == hist.erased /\ hist.termTok /\ ~obj.exists

\* C5: when cleanup fails the pass returns the error, has written nothing, the
\* token is still stored and the controller requeues through the rate limiter;
\* when cleanup succeeds and the pass ends without error, one write of the pass
\* removed the token; and a terminating object holding the token is eventually
\* erased.
C5_CleanupRetriedUntilErased ==
    /\ []((pc = "return" /\ pass.cleanup = "failed") =>
            /\ result = ErrResult
            /\ pass.writes = 0
            /\ (obj.exists => ContainsFinalizer(obj, OwnFinalizer)))
    /\ [][(pc = "return" /\ pc' = "idle" /\ pass.cleanup = "failed") =>
            "backoff" \in timers']_vars
    /\ []((pc = "return" /\ pass.cleanup = "ok" /\ ~result.err) =>
            (pass.writes = 1 /\ ~ContainsFinalizer(obj, OwnFinalizer)))
    /\ ((obj.exists /\ obj.del /\ ContainsFinalizer(obj, OwnFinalizer)) ~> hist.erased)

\* Cleanup failed in an earlier pass, succeeded in a later one, and the object
\* is gone.
C5_Witness == hist.erased /\ hist.cleanupFailed /\ hist.cleanupEver /\ hist.ownRemoved

\* C6: a status write that lost the version race against an external change
\* of the spec is retried on the new version; once the writer is done without an
\* error, the stored object holds the spec change and the writer's condition
\* (no other writer has touched the object).
C6_StatusWriteKeepsBoth ==
    \A w \in Writers :
        ( /\ wpc[w] = "done"
          /\ wconf[w] > 0
          /\ \A v \in Writers \ {w} : wpc[v] = "get" /\ winst[v] = NoInst )
        => /\ HasCondition(sobj.conds, Mutation(w))
           /\ sobj.gen = NewStored.gen + extWrites

\* C7: writer 1 sets Ready, writer 2 sets Degraded, both on the update-with-retry
\* or the merge-patch path; when both are done the stored object carries both
\* conditions, whatever the order of the writes.
C7_BothConditionsKept ==
    ( \A w \in Writers : wpath[w] \in {"retry", "patch"} /\ wpc[w] = "done" )
    => HasCondition(sobj.conds, "Ready") /\ HasCondition(sobj.conds, "Degraded")

\* C8: under ReconcileWithRetry the delay applied after a failed pass is never
\* below the delay applied after the failed pass before it, and the first
\* failure after a success (or after creation) is delayed by the base value.
C8_BackoffMonotone ==
    rkind = "retry" =>
        /\ streak >= 2 => lastDelay >= prevDelay
        /\ streak = 1 => lastDelay \in {Backoff(0), LimiterDelay(0)}

C12_NotFoundIsSuccess ==
    /\ []((pc = "return" /\ pass.path = "notfound") =>
            (result = NoResult /\ pass.writes = 0 /\ ~pass.normal /\ ~obj.exists))
    /\ []((pc = "return" /\ pass.path = "fetcherr") =>
            (result = ErrResult /\ pass.writes = 0 /\ ~pass.normal))
    /\ [][(pc = "return" /\ pass.path = "notfound" /\ pc' = "idle") =>
            timers' = timers]_vars
    /\ [][(pc = "return" /\ pass.path = "fetcherr" /\ pc' = "idle") =>
            "backoff" \in timers']_vars

\* The object was created, has vanished before the fetch, and the pass returns.
C12_Witness == pc = "return" /\ pass.path = "notfound" /\ created

\* C13: UpdateWithRetry answers a version conflict by reading the object again
\* and applying its mutation to what it read: the write that succeeds changes
\* the stored object of that moment by the mutation only. After RetrySteps
\* conflicts in a row it stops with the conflict error, never earlier and never
\* later, and a conflict touches neither the rate limiter nor the queue.
C13_BoundedLocalRetry ==
    /\ [](\A w \in Writers : wpath[w] = "retry" =>
            /\ wtries[w] <= RetrySteps
            /\ (wpc[w] = "failed") <=> (wtries[w] = RetrySteps)
            /\ wtries[w] = wconf[w])
    /\ [][\A w \in Writers :
            (wpath[w] = "retry" /\ wconf'[w] # wconf[w]) =>
                /\ wpc'[w] \in {"get", "failed"}
                /\ UNCHANGED <<sobj, limFailures, timers, queue, dirty>>]_vars
    /\ [][\A w \in Writers :
            (wpath[w] = "retry" /\ wpc[w] = "write" /\ wpc'[w] = "done") =>
                /\ winst[w] = sobj
                /\ sobj'.conds = SetCondition(sobj.conds, Mutation(w), "True", "Ready", 0)
                /\ sobj'.gen = sobj.gen]_vars

\* One writer gave up after RetrySteps conflicts; the other met a conflict,
\* read the object again and stored its condition.
C13_Witness ==
    \E w, v \in Writers :
        /\ wpath[w] = "retry" /\ wpc[w] = "failed"
        /\ wpath[v] = "retry" /\ wpc[v] = "done" /\ wconf[v] > 0
        /\ HasCondition(sobj.conds, Mutation(v))

\* C14: a pass one of whose writes met a version conflict returns Requeue=true
\* with a nil error.
C14_ConflictRequeues ==
    (pc = "return" /\ pass.conflict) => (result.requeue /\ ~result.err)

\* C15: a pass that finds deletionTimestamp set and the token present, and in
\* which cleanup and the write succeed, returns the empty result with a nil
\* error, made exactly one write, ran no normal logic, and leaves the stored
\* finalizers without the token; no step of the deletion path changes the
\* stored status.
C15_DeletionPassResult ==
    /\ []((pc = "return" /\ pass.path = "delete" /\ pass.cleanup = "ok" /\ ~result.err) =>
            /\ result = NoResult
            /\ ~pass.normal
            /\ pass.writes = 1
            /\ (obj.exists => ~ContainsFinalizer(obj, OwnFinalizer)))
    /\ [][(pc \in {"delete", "delwrite"} /\ pc' # pc /\ obj'.exists) =>
            (obj'.conds = obj.conds /\ obj'.phase = obj.phase /\ obj'.obsGen = obj.obsGen)]_vars

\* The deletion pass has removed the token and returns.
C15_Witness ==
    /\ pc = "return" /\ pass.path = "delete" /\ pass.cleanup = "ok"
    /\ result = NoResult /\ pass.writes = 1 /\ hist.ownRemoved

\* The deletion pass returns without error for an object on which no other
\* controller holds a token.
OnlyTokenRemoved ==
    /\ pc = "return" /\ pass.path = "delete" /\ pass.cleanup = "ok"
    /\ ~result.err /\ \A t \in OtherFinalizers : ~ContainsFinalizer(inst, t)

FirstCallDone ==
    /\ pc = "return" /\ pass.path = "addfin" /\ pass.finWrite = "ok"
    /\ fresh /\ obj.exists /\ ~obj.del

\* C17: one Reconcile call for a live Database without the token returns no
\* error and a result that is not empty, and leaves the stored status with a
\* phase, DeploymentName and ServiceName.
C17_FirstCallSetsStatus ==
    (kind = "Database" /\ FirstCallDone) =>
        /\ ~result.err /\ result # NoResult
        /\ obj.phase # "" /\ obj.details

\* C18: one Reconcile call for a live Cocktail or MyResource without the token
\* that returns no error returns RequeueAfter five minutes with Requeue false,
\* and leaves the stored Cocktail with phase Ready, ServingsReady and
\* LastPrepared.
C18_FirstCallRequeueAfter ==
    (kind \in {"Cocktail", "MyResource"} /\ FirstCallDone /\ ~result.err) =>
        /\ result = AfterResult(RequeueCocktail)
        /\ kind = "Cocktail" => (obj.phase = "Ready" /\ obj.details)

\* C19: the stored observedGeneration never exceeds the generation, and between
\* passes it equals the generation only if a normal pass for that generation
\* has ended without error.
C19_ObservedGeneration ==
    obj.exists =>
        /\ obj.obsGen <= obj.gen
        /\ (pc = "idle" /\ obj.obsGen = obj.gen) => hist.okGen = obj.gen

\* C20: a SetCondition call on a type that has an entry changes the entry's
\* LastTransitionTime if and only if it changes the entry's status; a call
\* with the same status and another reason leaves the time as it was.
C20_TransitionTimeTracksStatus ==
    clast.had =>
        ( (GetCondition(cconds, clast.type).time # clast.oldTime)
          <=> (clast.status # clast.oldStatus) )

\* C21: after any sequence of SetCondition calls the list holds exactly one
\* entry per type that was set, with the status and reason (message) set last
\* for that type; setting a type that is present keeps the length of the list
\* and every entry of another type.
C21_OneEntryPerType ==
    /\ \A i, j \in 1 .. Len(cconds) : cconds[i].type = cconds[j].type => i = j
    /\ Len(cconds) = Cardinality({t \in CondTypes : cseen[t] # NeverSet})
    /\ \A t \in CondTypes :
          IF cseen[t] = NeverSet THEN GetCondition(cconds, t) = NoCondition
          ELSE /\ GetCondition(cconds, t).type = t
               /\ GetCondition(cconds, t).status = cseen[t].status
               /\ GetCondition(cconds, t).reason = cseen[t].reason
    /\ clast.had =>
          /\ Len(cconds) = Len(clast.oldConds)
          /\ \A i \in 1 .. Len(cconds) :
                clast.oldConds[i].type # clast.type => cconds[i] = clast.oldConds[i]

\* Both types are present and the latest call replaced the entry of one of them
\* with another status and reason.
C21_Witness ==
    /\ Len(cconds) = 2
    /\ clast.had
    /\ clast.status # clast.oldStatus
    /\ GetCondition(clast.oldConds, clast.type).reason # clast.reason

\* C22: IsReady is false on an object with no Ready condition, and after any
\* sequence of SetCondition calls it is true exactly when the status set last
\* for type "Ready" is True, whatever the conditions of other types are.
C22_IsReadyTracksReady ==
    IsReady(cconds) <=> (cseen["Ready"] # NeverSet /\ cseen["Ready"].status = "True")

\* Not ready after Ready was set to something else than True, while another
\* type holds True.
C22_Witness ==
    /\ ~IsReady(cconds)
    /\ cseen["Ready"] # NeverSet
    /\ cseen["Degraded"] # NeverSet /\ cseen["Degraded"].status = "True"
    /\ clast.type = "Ready" /\ clast.had /\ clast.oldStatus = "True"

\* The finalizers of o that other controllers own, in their order.
OtherTokens(o) == SelectSeq(o.fins, LAMBDA x : x # OwnFinalizer)

\* C23: the write of the finalization pass removes the controller's own token
\* and nothing else: the tokens of other controllers stay, in the same order;
\* no step of a pass takes the object out of the store; and the object leaves
\* the store only when no token is left on it.
C23_OnlyOwnTokenRemoved ==
    /\ [][(pc = "delwrite" /\ pass'.writes = pass.writes + 1) =>
            /\ obj'.exists
            /\ ~ContainsFinalizer(obj', OwnFinalizer)
            /\ OtherTokens(obj') = OtherTokens(obj)
            /\ obj'.fins = OtherTokens(obj)]_vars
    /\ [][(pc' # pc \/ pass' # pass) => obj'.exists = obj.exists]_vars
    /\ [][(obj.exists /\ ~obj'.exists) => obj.fins = <<>>]_vars
    /\ [](obj.exists /\ obj.del /\ OtherTokens(obj) # <<>> => ~hist.erased)

\* The pass removed its token from an object on which two other controllers
\* hold theirs; the object is still stored with both.
C23_Witness ==
    /\ pc = "return" /\ pass.path = "delete" /\ pass.writes = 1
    /\ hist.ownRemoved
    /\ obj.exists /\ obj.del
    /\ obj.fins = <<OtherFinalizer, AnotherFinalizer>>

\* C24: cleanup is invoked only in the deletion path, for a fetched snapshot
\* that has its deletionTimestamp set and holds the controller's token; never
\* for a live object, never for a terminating object without the token.
C24_CleanupOnlyWhenTerminating ==
    /\ [][(pass.cleanup = "none" /\ pass'.cleanup # "none") =>
            /\ pc = "delete"
            /\ inst.exists /\ inst.del
            /\ ContainsFinalizer(inst, OwnFinalizer)]_vars
    /\ [](pass.cleanup # "none" =>
            /\ pass.path = "delete" /\ ~pass.normal
            /\ (pc # "idle" => inst.del)
            /\ (obj.exists => obj.del))
    /\ []((pc = "return" /\ pass.path = "delete" /\ pass.cleanup = "none") =>
            (result = NoResult /\ pass.writes = 0))

\* Cleanup has run for a terminating object that holds the token.
C24_Witness ==
    /\ pc = "delwrite" /\ pass.cleanup = "ok"
    /\ obj.exists /\ obj.del /\ ContainsFinalizer(obj, OwnFinalizer)

\* C25: once a Database pass has gone through all child steps, a further pass
\* with nothing changed in between leaves the children as that pass left them:
\* one child per kind and name, and the Secret's password and username as they
\* were generated.
C25_ChildrenIdempotent ==
    /\ ddone >= 1 => children = dsnap
    /\ \A c1, c2 \in children : (c1.kind = c2.kind /\ c1.name = c2.name) => c1 = c2
    /\ \A c1, c2 \in children : c1.kind = c2.kind => c1 = c2

\* Two passes have gone through all child steps.
C25_Witness ==
    /\ ddone >= 2 /\ dpc = "idle"
    /\ Lookup("Secret", SecretName(dspec)) # {}
    /\ Cardinality(children) >= 4


\* C27: a panic inside an invocation is caught at the worker boundary and
\* counts as an error of that attempt: the identity's in-flight mark is
\* released, the identity is requeued with backoff, and the pool keeps the
\* number of live workers it had.
C27_PanicIsolated ==
    plast # NoPanic =>
        /\ plast.released
        /\ plast.requeued
        /\ plast.liveAfter = plast.live
        /\ ~pcrash

\* C28: after the shutdown signal no worker is handed an item, and every
\* worker terminates, the invocations in flight returning first.
C28_ShutdownDrains ==
    /\ [][pshut => \A w \in Workers : worker[w] = NoId => worker'[w] = NoId]_vars
    /\ [][pshut => processing' \subseteq processing]_vars
    /\ [][\A w \in Workers : (wexit'[w] /\ ~wexit[w]) => worker[w] = NoId]_vars
    /\ (pshut ~> (\A w \in Workers : ~Live(w)))

\* All workers have left their loops after a shutdown that found one of them
\* in an invocation and items in the queue.
C28_Witness ==
    /\ pshut /\ ~pcrash
    /\ \A w \in Workers : wexit[w]
    /\ queue # <<>>
    /\ \E id \in Ids : served[id] >= 1


\* The primaries of the event's namespace whose spec names the object.
Referencing(field) ==
    {i \in PrimaryIds : prims[i].ns = mevent.ns /\ prims[i][field] = mevent.name}

\* C29: for an event on a ConfigMap or Secret the map function returns, and
\* the dispatcher enqueues, exactly the primaries of the object's namespace
\* whose spec references it by name, each once; the event of an owned child
\* enqueues exactly its owner.
C29_ExactlyReferencingPrimaries ==
    /\ mevent.kind = "ConfigMap" =>
            (menq = Referencing("configMapName") /\ Len(mreqs) = Cardinality(menq))
    /\ mevent.kind = "Secret" =>
            (menq = Referencing("secretName") /\ Len(mreqs) = Cardinality(menq))
    /\ mevent.kind \in OwnedKinds => menq = {mevent.owner}


\* The stored status of a live object agrees with its spec and its children.
Converged ==
    /\ obj.obsGen = obj.gen
    /\ IsReady(obj.conds) <=> (kind = "Database" => childReady)

ValidRequest(req) ==
    /\ req.replicas >= 0 /\ req.replicas <= 100
    /\ req.imageLen >= 1 /\ req.imageLen <= 511
    /\ req.configMapName # "" => <<req.ns, req.configMapName>> \in hcms
    /\ \A k \in DOMAIN req.params : k # "" /\ req.params[k] # ""

\* C31 as stated: a decoded request is allowed exactly when replicas is in
\* 0..100, the image has 1 to 511 characters, the named ConfigMap exists in
\* the object's namespace and no parameter has an empty key or value; a
\* negative replica count is answered with the replicas message and an empty
\* image with the image message.
C31_AllowedIffValid ==
    (hresp # NoResponse /\ hreq.decodes) =>
        /\ hresp.allowed <=> ValidRequest(hreq)
        /\ hreq.replicas < 0 => hresp.message = MsgReplicas
        /\ hreq.imageLen = 0 => hresp.message = MsgImage

\* C31 amended: a decoded request is allowed exactly when every check
\* passes, the ConfigMap check being that Client.Get returned the named
\* ConfigMap (which it does only when it is in the object's namespace);
\* a denial carries the message of the first failed check in the order
\* replicas, image, ConfigMap, parameters; a request that does not decode is
\* answered with an error and not allowed.
C31_AllowedIffChecksPass ==
    hresp # NoResponse =>
        /\ hresp.allowed <=>
                /\ hreq.decodes
                /\ hreq.replicas >= 0 /\ hreq.replicas <= 100
                /\ hreq.imageLen >= 1 /\ hreq.imageLen <= 511
                /\ hreq.configMapName # "" => hget = "ok"
                /\ \A k \in DOMAIN hreq.params : k # "" /\ hreq.params[k] # ""
        /\ hget = "ok" => <<hreq.ns, hreq.configMapName>> \in hcms
        /\ hresp.allowed => ValidRequest(hreq)
        /\ ~hreq.decodes => hresp.code = 400
        /\ hreq.decodes /\ ~hresp.allowed =>
                /\ hresp.code = 403
                /\ hresp.message # ""
                /\ (hreq.replicas < 0 \/ hreq.replicas > 100) <=> hresp.message = MsgReplicas
                /\ (hreq.replicas >= 0 /\ hreq.replicas <= 100 /\ hreq.imageLen = 0)
                        <=> hresp.message = MsgImage
                /\ hresp.message = MsgConfigMap => hget \in {"notfound", "error"}
                /\ hresp.message \in {MsgParamKey, MsgParamValue} =>
                        \E k \in DOMAIN hreq.params : k = "" \/ hreq.params[k] = ""

\* A request naming a ConfigMap of its namespace was allowed, and one with a
\* negative replica count and an empty image was denied.
C31_Witness ==
    /\ hresp.allowed
    /\ hreq.configMapName # ""
    /\ hreq.imageLen = 511
    /\ hreq.replicas = 100
    /\ DOMAIN hreq.params # {}

\* C32: in ReconcileWithRetry a failure seen with stored count k stores k+1
\* and returns RequeueAfter min(2^k seconds, five minutes) while k+1 <= 10,
\* the error itself after that; for every stored count, those of another
\* writer included, the computed delay is between one second and five minutes.
C32_DelayWithinBounds ==
    (rkind = "retry" /\ bpc = "return" /\ bfailed) =>
        LET k == bcount - 1
        IN  /\ annot = k + 1
            /\ k + 1 <= MaxRetries =>
                    /\ ~bresult.err
                    /\ bresult.after >= 1000 /\ bresult.after <= FiveMinutes
                    /\ k \in 0 .. 8 => bresult.after = 1000 * (2 ^ k)
                    /\ k >= 9 => bresult.after = FiveMinutes
            /\ k + 1 > MaxRetries => bresult = ErrResult
            /\ Backoff(k) >= 1000 /\ Backoff(k) <= FiveMinutes

\* C33: after a failed pass of ReconcileWithRetry that returned RequeueAfter d
\* the next pass does not start before d has elapsed (no other writer acts in
\* SpecRetry): no pass starts while the delayed add of the failed pass before
\* it is still waiting.
C33_NoEarlyInvocation ==
    (rkind = "retry" /\ bpc = "logic" /\ streak >= 1
        /\ ~bresult.err /\ bresult.after > 0) => ~bqueued

\* C34: a pass of ReconcileWithSkip over an object with deletionTimestamp set
\* and the controller's token present invokes the cleanup, also when the
\* object is paused or already Ready with observedGeneration = generation: no
\* such pass ends in one of the two skips.
C34_TerminatingNeverSkipped ==
    (pc = "return" /\ pass.path \in {"paused", "uptodate"}) =>
        ~(inst.del /\ ContainsFinalizer(inst, OwnFinalizer))

\* C35: under the update predicate of SetupWithCustomPredicate the deletion
\* request of an object holding the controller's token, which sets
\* deletionTimestamp and leaves the spec alone, is delivered to the queue.
C35_DeletionDelivered == hist.termTok => hist.delEvent

\* C36: a normal pass over a live object that is already converged (token
\* present, children as desired, Ready True, observedGeneration = generation)
\* and whose logic succeeds makes no write that changes the stored primary
\* object, so it raises no update event for itself.
C36_ConvergedPassWritesNothing ==
    (pass.normal /\ pass.conv /\ pass.reason = "") => ~pass.changed

\* C37: once the controller has removed its token from a terminating object,
\* the object never holds the token again and no later pass adds the token
\* or runs the normal path for it, whatever external updates interleave; the
\* token is added only by a pass whose fetched snapshot has deletionTimestamp
\* unset, and only to a stored object that is not terminating.
C37_TokenNeverReAdded ==
    /\ [](hist.ownRemoved =>
            /\ obj.exists => (obj.del /\ ~ContainsFinalizer(obj, OwnFinalizer))
            /\ ~pass.normal /\ pass.finWrite = "none"
            /\ pc \notin {"addfin", "normal", "children", "status", "errstatus"})
    /\ [](pc = "addfin" => (inst.exists /\ ~inst.del))
    /\ [][(~ContainsFinalizer(obj, OwnFinalizer) /\ ContainsFinalizer(obj', OwnFinalizer)) =>
            (pc = "addfin" /\ ~inst.del /\ obj.exists /\ ~obj.del /\ ~obj'.del)]_vars

\* After the controller removed its token the object is still stored,
\* terminating with the token of another controller, and a later pass over it
\* has returned without doing anything.
C37_Witness ==
    /\ hist.ownRemoved
    /\ obj.exists /\ obj.del /\ obj.fins # <<>>
    /\ pc = "return" /\ pass.path = "delete" /\ pass.cleanup = "none"

\* C38: a Database pass calls the child steps in the order PVC, Secret,
\* ConfigMap, Deployment, Service; when step i fails no later step is called
\* in that pass (and in a first pass no child of a later kind exists), the
\* status on the instance is phase Failed with Ready=False and the reason of
\* step i, a Failed status stored by a first pass is that one, and the pass
\* returns the error with the empty result.
C38_ChildOrderAndErrorPath ==
    LET n == Len(dpass.log)
    IN  /\ n <= Len(ChildSteps)
        /\ \A i \in 1 .. n : dpass.log[i] = ChildSteps[i]
        /\ dpc \notin {"idle", "off"} =>
                (n < Len(ChildSteps) /\ dpc = ChildSteps[n + 1] /\ dpass.failedAt = 0)
        /\ dpass.failedAt > 0 =>
                /\ dpc = "idle" /\ n = dpass.failedAt
                /\ dpass.status = [phase |-> "Failed", ready |-> "False",
                                   reason |-> ChildReasons[dpass.failedAt]]
                /\ dpass.result = ErrResult
                /\ dpasses = 1 =>
                        /\ dpass.stored.phase = "Failed" => dpass.stored = dpass.status
                        /\ \A c \in children :
                                \E i \in 1 .. dpass.failedAt - 1 : c.kind = ChildKinds[i]
        /\ (dpc = "idle" /\ dpasses > 0 /\ dpass.failedAt = 0) =>
                (n = Len(ChildSteps) /\ dpass.status.phase # "Failed")

\* The first pass failed in reconcileDeployment after it wrote the PVC and the
\* Secret, and the Failed status was stored.
C38_Witness ==
    /\ dpasses = 1 /\ dpc = "idle"
    /\ dpass.failedAt = 4
    /\ dpass.stored.reason = "DeploymentCreateFailed"
    /\ Lookup("Secret", SecretName(dspec)) # {}

\* C39: the Secret name in the SecretKeyRef of the Deployment's
\* POSTGRES_PASSWORD is the name of the Secret that reconcileSecret wrote in
\* the same pass, also when spec.passwordSecretName is empty and the Secret
\* is named after the Database.
C39_SecretRefMatchesSecret ==
    \A d \in Lookup("Deployment", DbName) :
        /\ d.data[2] = SecretName(dspec)
        /\ Lookup("Secret", d.data[2]) # {}

\* C40: every child the Database reconciler wrote is in the namespace of the
\* Database and has the Database as its controller owner, and the event of a
\* change to any of them enqueues the Database.
C40_ChildrenOwnedAndWatched ==
    /\ \A c \in children : c.ns = DbNamespace /\ c.owner = DbName
    /\ devent # NoChildEvent => devent.enq = {DbName}

\* C10: a pass whose logic failed returns the error, so that the identity goes
\* through the queue's rate limiter; it never returns a delayed requeue with a
\* nil error.
C10_FailureReportedAsError ==
    (bpc = "return" /\ bfailed) => (bresult.err /\ bresult.after = 0)

====
